---------------------------- MODULE Spec2Model ----------------------------
(***************************************************************************)
(* Model of the fog-node pipeline of chou00/fog-ai:                        *)
(*   - the ingestion buffer of fog_node/traffic_capture.py (a bounded      *)
(*     queue.Queue between one producer thread and one consumer),          *)
(*   - the window aggregator of fog_node/feature_extraction.py,            *)
(*   - the scoring of fog_node/anomaly_detection.py,                       *)
(*   - the agent of fog_node/fog_agent.py: start, stop and the analysis    *)
(*     threads.                                                            *)
(* Every queue.Queue call is one atomic step (the queue holds its mutex    *)
(* for the whole call); the steps of the two threads interleave freely.    *)
(***************************************************************************)
EXTENDS Integers, Sequences, FiniteSets, TLC

VARIABLES
    capture_queue,  \* queue.Queue(maxsize=buffer_size): the queued records, oldest first
    buffer_size,    \* the configured capacity of capture_queue
    ppc,            \* producer position: "idle", "full" (queue.Full caught), "retry", "raised"
    packet,         \* the record the producer is pushing (records are numbered 1, 2, ...)
    pushed,         \* history: number of records the producer has started to push
    dropped,        \* history: the new records that were discarded by their own push
    cpc,            \* consumer position: "idle" or "loop" (inside get_packets)
    packets,        \* get_packets' local list; the returned list once cpc = "idle"
    max_packets,    \* argument of the running (or last) get_packets call
    end_time,       \* get_packets' deadline: time of the call + timeout
    delivered,      \* history: concatenation of all lists get_packets has returned
    now,            \* the clock (datetime.now()), in whole time units
    packet_buffer,  \* FeatureExtractor.packet_buffer: deque(maxlen), oldest first
    window_size,    \* FeatureExtractor.window_size
    ingested,       \* history: the number of records add_packets has appended
    features,       \* what the extract_features call just made returned (or raised)
    feature_vector, \* what the get_feature_vector call just made returned (or raised)
    is_running,     \* FogAgent.is_running
    is_capturing,   \* capture.is_capturing
    capture_threads,\* the number of live capture threads
    analysis,       \* the analysis threads: position and locals of each _analysis_loop
    detection_count,\* FogAgent.detection_count
    normal_count,   \* FogAgent.normal_count
    detection_log,  \* the DetectionRecords appended to logs/fog_<node>_detections.jsonl
    alert_log,      \* the AlertRecords appended to logs/fog_<node>_alerts.jsonl
    agent_log,      \* the lines start() and stop() have written to the agent's logger
    is_trained,     \* AnomalyDetector.is_trained
    scored,         \* the batch last given to predict / predict_proba, and what it returned
    tshark_process, \* TrafficCapture.tshark_process: None (0) or the process it refers to
    processes,      \* the tshark processes created so far: "running" or "terminated"
    capture_thread, \* the threads of TrafficCapture._capture_loop: position and own process
    statistics      \* the get_statistics call: its position and the map it is building

qvars == <<capture_queue, buffer_size, ppc, packet, pushed, dropped,
           cpc, packets, max_packets, end_time, delivered>>

fvars == <<packet_buffer, window_size, ingested, features, feature_vector>>

\* the agent, its threads, its sinks and its detector
avars == <<is_running, is_capturing, capture_threads, analysis,
           detection_count, normal_count, detection_log, alert_log, agent_log,
           is_trained, scored>>

\* TrafficCapture: its transport process and its capture threads
tvars == <<tshark_process, processes, capture_thread>>

vars == <<qvars, now, fvars, avars, tvars, statistics>>

(***************************************************************************)
(* Bounds of the model.                                                    *)
(***************************************************************************)
MaxBufferSize == 2     \* buffer_size ranges over 1..MaxBufferSize
MaxPush == 4           \* the producer pushes at most this many records
MaxPackets == 2        \* max_packets ranges over 0..MaxPackets
MaxTimeout == 1        \* timeout ranges over 0..MaxTimeout
MaxTime == 2           \* the clock stops at MaxTime
maxlen == 2            \* stands for deque(maxlen=10000), the capacity of packet_buffer
WindowSize == 1        \* stands for window_size=60, in time units
MaxIngest == 5         \* the ingest model appends at most this many records
MaxLength == 2         \* the length field of a uniform record ranges over 0..MaxLength
MaxRawScore == 3       \* a raw score of the model ranges over 0..MaxRawScore
MaxBatch == 3          \* a scored batch has 1..MaxBatch rows
MaxThreads == 2        \* at most this many analysis (and capture) threads are live
MaxCalls == 4          \* start() and stop() are called at most this many times in all
MaxCaptured == 2       \* the capture threads of the agent push at most this many packets

(***************************************************************************)
(* Helpers on sequences.                                                   *)
(***************************************************************************)
Min(a, b) == IF a <= b THEN a ELSE b

Max(a, b) == IF a >= b THEN a ELSE b

\* the last n elements of s (all of s when n >= Len(s))
LastN(s, n) == SubSeq(s, Len(s) - Min(n, Len(s)) + 1, Len(s))

Range(s) == {s[i] : i \in DOMAIN s}

\* the sequence <<a, a+1, ..., b>>
Interval(a, b) == [i \in 1..(b - a + 1) |-> a + i - 1]

StrictlyIncreasing(s) == \A i, j \in DOMAIN s : i < j => s[i] < s[j]

(***************************************************************************)
(* queue.Queue, as used by traffic_capture.py.                             *)
(***************************************************************************)
\* a full-test that lets one record too many in
QueueFull_late(q, maxsize) == Len(q) > maxsize

\* Queue.put_nowait raises queue.Full exactly when the queue holds maxsize items
QueueFull(q, maxsize) == Len(q) >= maxsize

\* Queue.put_nowait on a queue that is not full: the item goes to the tail
QueuePut(q, item) == Append(q, item)

\* a get that hands out the newest record instead of the oldest
QueueGetItem_newest(q) == q[Len(q)]

\* Queue.get / get_nowait on a non-empty queue: the head is returned ...
QueueGetItem(q) == Head(q)

\* an eviction that removes the newest record instead of the oldest
QueueGetRest_newest(q) == SubSeq(q, 1, Len(q) - 1)

\* ... and removed
QueueGetRest(q) == Tail(q)

(***************************************************************************)
(* The producer: the push of _process_packet / _simulate_capture.          *)
(***************************************************************************)
\* first put_nowait(packet); queue.Full leads to the drop-oldest fallback
put_nowait ==
    /\ ppc = "idle"
    /\ pushed < MaxPush
    /\ pushed' = pushed + 1
    /\ packet' = pushed + 1
    /\ IF QueueFull(capture_queue, buffer_size)
         THEN /\ ppc' = "full"
              /\ UNCHANGED capture_queue
         ELSE /\ ppc' = "idle"
              /\ capture_queue' = QueuePut(capture_queue, pushed + 1)
    /\ UNCHANGED <<tvars, statistics, buffer_size, dropped, cpc, packets, max_packets, end_time,
                   delivered, now, fvars, avars>>

\* except queue.Full: get_nowait(); queue.Empty is passed over and the
\* new record is then never inserted
drop_oldest ==
    /\ ppc = "full"
    /\ IF capture_queue # <<>>
         THEN /\ capture_queue' = QueueGetRest(capture_queue)
              /\ ppc' = "retry"
              /\ UNCHANGED dropped
         ELSE /\ ppc' = "idle"
              /\ dropped' = dropped \cup {packet}
              /\ UNCHANGED capture_queue
    /\ UNCHANGED <<tvars, statistics, buffer_size, packet, pushed, cpc, packets, max_packets,
                   end_time, delivered, now, fvars, avars>>

\* the second put_nowait(packet), after the oldest record was evicted; a
\* queue.Full raised here is not caught by `except queue.Empty`
retry_put ==
    /\ ppc = "retry"
    /\ IF QueueFull(capture_queue, buffer_size)
         THEN /\ ppc' = "raised"
              /\ dropped' = dropped \cup {packet}
              /\ UNCHANGED capture_queue
         ELSE /\ ppc' = "idle"
              /\ capture_queue' = QueuePut(capture_queue, packet)
              /\ UNCHANGED dropped
    /\ UNCHANGED <<tvars, statistics, buffer_size, packet, pushed, cpc, packets, max_packets,
                   end_time, delivered, now, fvars, avars>>

(***************************************************************************)
(* The consumer: get_packets(timeout, max_packets).                        *)
(***************************************************************************)
\* packets = []; end_time = now + timeout
get_packets_call ==
    /\ cpc = "idle"
    /\ \E timeout \in 0..MaxTimeout, m \in 0..MaxPackets :
          /\ end_time' = now + timeout
          /\ max_packets' = m
    /\ packets' = <<>>
    /\ cpc' = "loop"
    /\ UNCHANGED <<tvars, statistics, capture_queue, buffer_size, ppc, packet, pushed, dropped,
                   delivered, now, fvars, avars>>

\* a loop that goes on waiting after queue.Empty instead of breaking
get_packets_loop_continue ==
    /\ cpc = "loop"
    /\ IF Len(packets) < max_packets /\ now < end_time
         THEN IF capture_queue # <<>>
                THEN /\ packets' = Append(packets, QueueGetItem(capture_queue))
                     /\ capture_queue' = QueueGetRest(capture_queue)
                     /\ UNCHANGED <<cpc, delivered>>
                ELSE UNCHANGED <<capture_queue, packets, cpc, delivered>>
         ELSE /\ cpc' = "idle"
              /\ delivered' = delivered \o packets
              /\ UNCHANGED <<capture_queue, packets>>
    /\ UNCHANGED <<tvars, statistics, buffer_size, ppc, packet, pushed, dropped, max_packets,
                   end_time, now, fvars, avars>>

\* one evaluation of the while condition and, when it holds, of
\* capture_queue.get(timeout=0.1): a record is appended to packets, or
\* queue.Empty breaks the loop; the loop's exit returns packets
get_packets_loop ==
    /\ cpc = "loop"
    /\ IF Len(packets) < max_packets /\ now < end_time
         THEN IF capture_queue # <<>>
                THEN /\ packets' = Append(packets, QueueGetItem(capture_queue))
                     /\ capture_queue' = QueueGetRest(capture_queue)
                     /\ UNCHANGED <<cpc, delivered>>
                ELSE /\ cpc' = "idle"
                     /\ delivered' = delivered \o packets
                     /\ UNCHANGED <<capture_queue, packets>>
         ELSE /\ cpc' = "idle"
              /\ delivered' = delivered \o packets
              /\ UNCHANGED <<capture_queue, packets>>
    /\ UNCHANGED <<tvars, statistics, buffer_size, ppc, packet, pushed, dropped, max_packets,
                   end_time, now, fvars, avars>>

(***************************************************************************)
(* Python values of a packet's layer fields.  A value is an int, a str (a  *)
(* sequence of characters), a list of values, or None; all have the same   *)
(* record shape.                                                           *)
(***************************************************************************)
PyInt(n) == [type |-> "int", int |-> n, str |-> <<>>, list |-> <<>>]

PyStr(s) == [type |-> "str", int |-> 0, str |-> s, list |-> <<>>]

PyList(l) == [type |-> "list", int |-> 0, str |-> <<>>, list |-> l]

PyNone == [type |-> "none", int |-> 0, str |-> <<>>, list |-> <<>>]

\* the {} that ip_layer.get('ip_len', {}) returns for an absent field
PyEmptyDict == [type |-> "dict", int |-> 0, str |-> <<>>, list |-> <<>>]

\* bool(v): 0, '', [], {} and None are false
Truthy(v) ==
    CASE v.type = "int" -> v.int # 0
      [] v.type = "str" -> v.str # <<>>
      [] v.type = "list" -> v.list # <<>>
      [] OTHER -> FALSE

Digits == <<"0", "1", "2", "3", "4", "5", "6", "7", "8", "9">>

IsDigit(c) == \E d \in DOMAIN Digits : Digits[d] = c

DigitValue(c) == (CHOOSE d \in DOMAIN Digits : Digits[d] = c) - 1

\* the digits of s read as a decimal number
RECURSIVE DecimalValue(_)
DecimalValue(s) ==
    IF s = <<>> THEN 0
    ELSE 10 * DecimalValue(SubSeq(s, 1, Len(s) - 1)) + DigitValue(s[Len(s)])

\* s without one leading sign
Unsigned(s) ==
    IF s # <<>> /\ s[1] \in {"-", "+"} THEN Tail(s) ELSE s

\* int(v) raises ValueError for a str that is not an optionally signed
\* run of decimal digits
IntRaises(v) ==
    /\ v.type = "str"
    /\ \/ Unsigned(v.str) = <<>>
       \/ \E i \in DOMAIN Unsigned(v.str) : ~IsDigit(Unsigned(v.str)[i])

\* int(v) for an int or a str for which it does not raise
IntOf(v) ==
    IF v.type = "int" THEN v.int
    ELSE IF v.str[1] = "-" THEN 0 - DecimalValue(Unsigned(v.str))
    ELSE DecimalValue(Unsigned(v.str))

(***************************************************************************)
(* Feature values are Python numbers; they are held exactly, as fractions  *)
(* <<numerator, denominator>> in lowest terms with a positive denominator. *)
(***************************************************************************)
Abs(n) == IF n < 0 THEN 0 - n ELSE n

RECURSIVE GCD(_, _)
GCD(a, b) == IF b = 0 THEN a ELSE GCD(b, a % b)

\* the fraction n / d, for d > 0
Frac(n, d) == LET g == GCD(Abs(n), d) IN <<n \div g, d \div g>>

Num(n) == <<n, 1>>

FracAdd(x, y) == Frac(x[1] * y[2] + y[1] * x[2], x[2] * y[2])

FracLE(x, y) == x[1] * y[2] <= y[1] * x[2]

RECURSIVE SumSeq(_)
SumSeq(s) == IF s = <<>> THEN 0 ELSE s[1] + SumSeq(Tail(s))

RECURSIVE MaxSeq(_)
MaxSeq(s) == IF Len(s) = 1 THEN s[1] ELSE Max(s[1], MaxSeq(Tail(s)))

RECURSIVE MinSeq(_)
MinSeq(s) == IF Len(s) = 1 THEN s[1] ELSE Min(s[1], MinSeq(Tail(s)))

\* np.mean of a non-empty list of integers
Mean(s) == Frac(SumSeq(s), Len(s))

\* np.std of a non-empty list of integers, held as its square (the
\* variance): mean(x^2) - mean(x)^2 = (n * sum(x^2) - sum(x)^2) / n^2
StdSquared(s) ==
    Frac(Len(s) * SumSeq([i \in DOMAIN s |-> s[i] * s[i]]) - SumSeq(s) * SumSeq(s),
         Len(s) * Len(s))

(***************************************************************************)
(* Packet records.  `layers` maps layer names to layers; a layer is a dict *)
(* of fields or something that is not a dict.                              *)
(***************************************************************************)
Dict(fields) == [isdict |-> TRUE, fields |-> fields]

NotDict == [isdict |-> FALSE, fields |-> <<>>]

NoFields == <<>>

NoLayers == <<>>

\* a 'timestamp' string in ISO format that denotes time t
IsoTime(t) == [valid |-> TRUE, time |-> t]

\* a 'timestamp' that datetime.fromisoformat does not accept
BadTime == [valid |-> FALSE, time |-> 0]

\* the layer maps the packets of the model are made of: scalar fields as
\* the simulated capture writes them, one-element lists and strings as a
\* live capture delivers them, and malformed or missing parts
SampleLayers ==
    { [ip  |-> Dict([ip_src |-> PyStr(<<"a">>), ip_dst |-> PyStr(<<"b">>),
                     ip_len |-> PyInt(2)]),
       tcp |-> Dict([tcp_srcport |-> PyInt(1), tcp_dstport |-> PyInt(2)])],
      [ip  |-> Dict([ip_src |-> PyStr(<<"b">>), ip_dst |-> PyStr(<<"a">>),
                     ip_len |-> PyStr(<<"1", "0">>)]),
       udp |-> Dict([udp_srcport |-> PyStr(<<"5">>)])],
      [ip  |-> Dict([ip_src |-> PyList(<<PyStr(<<"a">>)>>),
                     ip_dst |-> PyList(<<PyStr(<<"b">>)>>),
                     ip_len |-> PyList(<<PyStr(<<"4">>)>>)]),
       icmp |-> Dict(NoFields)],
      [ip  |-> Dict([ip_len |-> PyStr(<<"x">>)]),
       tcp |-> Dict(NoFields),
       udp |-> Dict(NoFields)],
      [ip  |-> NotDict,
       udp |-> NotDict,
       icmp |-> Dict(NoFields)],
      NoLayers }

\* the layers of the k-th record of the ingest model, told apart by the
\* identification field of its ip layer
NumberedLayers(k) == [ip |-> Dict([ip_id |-> PyInt(k)])]

(***************************************************************************)
(* FeatureExtractor.add_packets.                                           *)
(***************************************************************************)
\* a trim that evicts the record with the earliest timestamp
DequeAppend_by_time(buf, x, cap) ==
    IF Len(buf) >= cap
      THEN LET i == CHOOSE i \in DOMAIN buf :
                       \A j \in DOMAIN buf :
                          \/ buf[i].timestamp < buf[j].timestamp
                          \/ buf[i].timestamp = buf[j].timestamp /\ i <= j
           IN  Append(SubSeq(buf, 1, i - 1) \o SubSeq(buf, i + 1, Len(buf)), x)
      ELSE Append(buf, x)

\* deque(maxlen=cap).append(x): a full deque discards its leftmost item
DequeAppend(buf, x, cap) ==
    IF Len(buf) >= cap THEN Append(Tail(buf), x) ELSE Append(buf, x)

\* datetime.fromisoformat(packet['timestamp']) raises
FromIsoRaises(ts) == ~ts.valid

\* datetime.fromisoformat(packet['timestamp'])
FromIso(ts) == ts.time

\* the records of the batch that the for loop appends: those before the
\* first one whose timestamp does not parse (the exception ends the loop)
RECURSIVE Accepted(_)
Accepted(batch) ==
    IF batch = <<>> \/ FromIsoRaises(batch[1].timestamp) THEN <<>>
    ELSE <<[timestamp |-> FromIso(batch[1].timestamp), layers |-> batch[1].layers]>>
            \o Accepted(Tail(batch))

\* packet_buffer after the appends of `records`
RECURSIVE AppendAll(_, _, _)
AppendAll(buf, records, cap) ==
    IF records = <<>> THEN buf
    ELSE AppendAll(DequeAppend(buf, records[1], cap), Tail(records), cap)

(***************************************************************************)
(* FeatureExtractor.extract_features and its helpers.                      *)
(***************************************************************************)
HasLayer(layers, name) == name \in DOMAIN layers

HasField(layer, field) == field \in DOMAIN layer.fields

\* the order in which get_feature_vector lays the features out
feature_order ==
    << "packet_count", "packet_rate", "total_bytes", "byte_rate",
       "tcp_ratio", "udp_ratio", "icmp_ratio", "other_ratio",
       "num_flows", "avg_flow_duration", "max_flow_duration",
       "avg_packets_per_flow", "max_packets_per_flow",
       "unique_sources", "unique_destinations", "unique_connections",
       "connection_diversity",
       "avg_packet_size", "min_packet_size", "max_packet_size",
       "std_packet_size" >>

\* a default map that lacks one name
get_default_features_short ==
    [ packet_count |-> Num(0), packet_rate |-> Num(0),
      total_bytes |-> Num(0), byte_rate |-> Num(0),
      tcp_ratio |-> Num(0), udp_ratio |-> Num(0),
      icmp_ratio |-> Num(0), other_ratio |-> Num(0),
      num_flows |-> Num(0),
      avg_flow_duration |-> Num(0), max_flow_duration |-> Num(0),
      avg_packets_per_flow |-> Num(0), max_packets_per_flow |-> Num(0),
      unique_sources |-> Num(0), unique_destinations |-> Num(0),
      unique_connections |-> Num(0), connection_diversity |-> Num(0),
      avg_packet_size |-> Num(0), min_packet_size |-> Num(0),
      max_packet_size |-> Num(0) ]

\* _get_default_features: the map returned when there is no data
get_default_features ==
    [ packet_count |-> Num(0), packet_rate |-> Num(0),
      total_bytes |-> Num(0), byte_rate |-> Num(0),
      tcp_ratio |-> Num(0), udp_ratio |-> Num(0),
      icmp_ratio |-> Num(0), other_ratio |-> Num(0),
      num_flows |-> Num(0),
      avg_flow_duration |-> Num(0), max_flow_duration |-> Num(0),
      avg_packets_per_flow |-> Num(0), max_packets_per_flow |-> Num(0),
      unique_sources |-> Num(0), unique_destinations |-> Num(0),
      unique_connections |-> Num(0), connection_diversity |-> Num(0),
      avg_packet_size |-> Num(0), min_packet_size |-> Num(0),
      max_packet_size |-> Num(0), std_packet_size |-> Num(0) ]

\* the records of the buffer with timestamp >= now - window_size
window_packets(buf, t, w) ==
    SelectSeq(buf, LAMBDA p : p.timestamp >= t - w)

\* a classification that looks for udp before tcp
protocol_udp_first(layers) ==
    IF HasLayer(layers, "udp") THEN "udp"
    ELSE IF HasLayer(layers, "tcp") THEN "tcp"
    ELSE IF HasLayer(layers, "icmp") THEN "icmp"
    ELSE "other"

\* a classification without the final else: a record with none of the
\* three layers is counted nowhere
protocol_no_other(layers) ==
    IF HasLayer(layers, "tcp") THEN "tcp"
    ELSE IF HasLayer(layers, "udp") THEN "udp"
    ELSE IF HasLayer(layers, "icmp") THEN "icmp"
    ELSE "none"

\* the protocol class a record is counted in: the if / elif chain
protocol(layers) ==
    IF HasLayer(layers, "tcp") THEN "tcp"
    ELSE IF HasLayer(layers, "udp") THEN "udp"
    ELSE IF HasLayer(layers, "icmp") THEN "icmp"
    ELSE "other"

\* protocol_counts[name] after the loop over the window
protocol_counts(wp, name) ==
    Cardinality({i \in DOMAIN wp : protocol(wp[i].layers) = name})

\* ip_layer.get('ip_len', {}) of a record whose 'ip' layer is a dict
ip_len(layers) ==
    IF HasField(layers["ip"], "ip_len") THEN layers["ip"].fields["ip_len"]
    ELSE PyEmptyDict

\* the length field is read at all: 'ip' in layers and it is a dict
HasIpDict(layers) == HasLayer(layers, "ip") /\ layers["ip"].isdict

\* a size list that takes the first element of a list-valued length
parsed_size_unwrapping(layers) ==
    IF ~HasIpDict(layers) THEN <<>>
    ELSE IF ip_len(layers).type = "list"
           THEN (IF ip_len(layers).list # <<>> /\ ~IntRaises(ip_len(layers).list[1])
                   THEN <<IntOf(ip_len(layers).list[1])>> ELSE <<>>)
    ELSE IF ip_len(layers).type \in {"int", "str"} /\ ~IntRaises(ip_len(layers))
           THEN <<IntOf(ip_len(layers))>>
    ELSE <<>>

\* what one record appends to packet_sizes in _extract_size_features, as
\* a list of none or one integer (the same branches as for total_bytes)
parsed_size(layers) ==
    IF ~HasIpDict(layers) THEN <<>>
    ELSE IF ip_len(layers).type = "list" THEN <<>>
    ELSE IF ip_len(layers).type \in {"int", "str"} /\ ~IntRaises(ip_len(layers))
           THEN <<IntOf(ip_len(layers))>>
    ELSE <<>>

\* packet_sizes of _extract_size_features: the parsed lengths in order
RECURSIVE packet_sizes(_)
packet_sizes(wp) ==
    IF wp = <<>> THEN <<>>
    ELSE parsed_size(wp[1].layers) \o packet_sizes(Tail(wp))

\* what one record adds to total_bytes in extract_features: nothing
\* without an 'ip' dict; for a list value the local ip_len is set to its
\* first element (or 0) and nothing is added, the int / str branch being
\* an elif; an int or a str adds int(ip_len), a ValueError adds nothing
byte_count(layers) ==
    IF ~HasIpDict(layers) THEN 0
    ELSE IF ip_len(layers).type = "list" THEN 0
    ELSE IF ip_len(layers).type \in {"int", "str"} /\ ~IntRaises(ip_len(layers))
           THEN IntOf(ip_len(layers))
    ELSE 0

\* total_bytes after the loop of extract_features
total_bytes(wp) == SumSeq([i \in DOMAIN wp |-> byte_count(wp[i].layers)])

\* x.get(field, [''])[0] if isinstance(x.get(field), list) else
\* x.get(field, '') raises IndexError on an empty list
FieldRaises(layer, field) ==
    /\ HasField(layer, field)
    /\ layer.fields[field].type = "list"
    /\ layer.fields[field].list = <<>>

\* ... and otherwise is the first element of a list, the value itself,
\* or '' for an absent field
field_value(layer, field) ==
    IF ~HasField(layer, field) THEN PyStr(<<>>)
    ELSE IF layer.fields[field].type = "list" THEN layer.fields[field].list[1]
    ELSE layer.fields[field]

\* the layer the ports are read from: 'tcp' if present, else 'udp'
port_layer(layers) ==
    IF HasLayer(layers, "tcp") THEN "tcp"
    ELSE IF HasLayer(layers, "udp") THEN "udp"
    ELSE "none"

HasPortDict(layers) ==
    port_layer(layers) # "none" /\ layers[port_layer(layers)].isdict

\* src_ip / dst_ip: None unless 'ip' is a dict layer
address(layers, field) ==
    IF HasIpDict(layers) THEN field_value(layers["ip"], field) ELSE PyNone

\* src_port / dst_port: None unless the port layer is a dict
port(layers, side) ==
    IF ~HasPortDict(layers) THEN PyNone
    ELSE IF port_layer(layers) = "tcp"
           THEN field_value(layers["tcp"], IF side = "src" THEN "tcp_srcport"
                                                           ELSE "tcp_dstport")
    ELSE field_value(layers["udp"], IF side = "src" THEN "udp_srcport"
                                                    ELSE "udp_dstport")

\* if src_ip and dst_ip: the record belongs to a flow
in_flow(layers) ==
    Truthy(address(layers, "ip_src")) /\ Truthy(address(layers, "ip_dst"))

\* a flow key made of the two addresses only
flow_key_by_address(layers) ==
    << address(layers, "ip_src"), address(layers, "ip_dst"), PyNone, PyNone >>

flow_key(layers) ==
    << address(layers, "ip_src"), address(layers, "ip_dst"),
       port(layers, "src"), port(layers, "dst") >>

\* building the flow key of this record raises
flow_raises(layers) ==
    \/ /\ HasIpDict(layers)
       /\ \/ FieldRaises(layers["ip"], "ip_src")
          \/ FieldRaises(layers["ip"], "ip_dst")
    \/ /\ HasPortDict(layers)
       /\ port_layer(layers) = "tcp"
       /\ \/ FieldRaises(layers["tcp"], "tcp_srcport")
          \/ FieldRaises(layers["tcp"], "tcp_dstport")
    \/ /\ HasPortDict(layers)
       /\ port_layer(layers) = "udp"
       /\ \/ FieldRaises(layers["udp"], "udp_srcport")
          \/ FieldRaises(layers["udp"], "udp_dstport")

\* every record of a flow opens a flow of its own
add_flow_every(keys, layers) ==
    IF in_flow(layers) THEN Append(keys, flow_key(layers)) ELSE keys

\* flows[flow_key] is created when a record of a flow has a new key
add_flow(keys, layers) ==
    IF in_flow(layers) /\ flow_key(layers) \notin Range(keys)
      THEN Append(keys, flow_key(layers))
      ELSE keys

\* the keys of the dict `flows`, in order of first insertion
RECURSIVE flow_keys(_)
flow_keys(wp) ==
    IF wp = <<>> THEN <<>>
    ELSE CHOOSE keys \in {add_flow(k, wp[Len(wp)].layers) :
                            k \in {flow_keys(SubSeq(wp, 1, Len(wp) - 1))}} : TRUE

\* flows[key]['packets']
flow_members(wp, key) ==
    SelectSeq(wp, LAMBDA p : in_flow(p.layers) /\ flow_key(p.layers) = key)

\* a duration taken between the earliest and the latest timestamp
span_sorted(members) ==
    MaxSeq([i \in DOMAIN members |-> members[i].timestamp])
        - MinSeq([i \in DOMAIN members |-> members[i].timestamp])

\* end_time - start_time of a flow: start_time is the timestamp of the
\* first record put into the flow, end_time that of the last one
span(members) == members[Len(members)].timestamp - members[1].timestamp

\* flow_durations and flow_packet_counts (a datetime is always true, so
\* every flow of `flows` contributes)
flow_durations(wp, keys) ==
    [i \in DOMAIN keys |-> span(flow_members(wp, keys[i]))]

flow_packet_counts(wp, keys) ==
    [i \in DOMAIN keys |-> Len(flow_members(wp, keys[i]))]

\* flow features that leave out max_packets_per_flow
flow_features_short(num_flows, durations, counts) ==
    [ num_flows |-> Num(num_flows),
      avg_flow_duration |-> IF durations # <<>> THEN Mean(durations) ELSE Num(0),
      max_flow_duration |-> IF durations # <<>> THEN Num(MaxSeq(durations)) ELSE Num(0),
      avg_packets_per_flow |-> IF counts # <<>> THEN Mean(counts) ELSE Num(0) ]

\* the dict of flow features: len(flows), np.mean and np.max of the two
\* lists, and 0 for an empty list
flow_features(num_flows, durations, counts) ==
    [ num_flows |-> Num(num_flows),
      avg_flow_duration |-> IF durations # <<>> THEN Mean(durations) ELSE Num(0),
      max_flow_duration |-> IF durations # <<>> THEN Num(MaxSeq(durations)) ELSE Num(0),
      avg_packets_per_flow |-> IF counts # <<>> THEN Mean(counts) ELSE Num(0),
      max_packets_per_flow |-> IF counts # <<>> THEN Num(MaxSeq(counts)) ELSE Num(0) ]

\* _extract_flow_features
extract_flow_features(wp) ==
    CHOOSE f \in UNION {{flow_features(Len(keys), d, c) :
                            d \in {flow_durations(wp, keys)},
                            c \in {flow_packet_counts(wp, keys)}} :
                         keys \in {flow_keys(wp)}} : TRUE

\* reading the addresses of this record in _extract_connection_features raises
connection_raises(layers) ==
    /\ HasIpDict(layers)
    /\ \/ FieldRaises(layers["ip"], "ip_src")
       \/ FieldRaises(layers["ip"], "ip_dst")

\* the sets unique_sources, unique_destinations and connections
unique_sources(wp) ==
    { field_value(wp[i].layers["ip"], "ip_src") :
        i \in {j \in DOMAIN wp : /\ HasIpDict(wp[j].layers)
                                 /\ Truthy(field_value(wp[j].layers["ip"], "ip_src"))} }

unique_destinations(wp) ==
    { field_value(wp[i].layers["ip"], "ip_dst") :
        i \in {j \in DOMAIN wp : /\ HasIpDict(wp[j].layers)
                                 /\ Truthy(field_value(wp[j].layers["ip"], "ip_dst"))} }

\* connections told apart by their ports as well
connections_with_ports(wp) ==
    { << field_value(wp[i].layers["ip"], "ip_src"),
         field_value(wp[i].layers["ip"], "ip_dst"),
         port(wp[i].layers, "src"), port(wp[i].layers, "dst") >> :
        i \in {j \in DOMAIN wp : /\ HasIpDict(wp[j].layers)
                                 /\ Truthy(field_value(wp[j].layers["ip"], "ip_src"))
                                 /\ Truthy(field_value(wp[j].layers["ip"], "ip_dst"))} }

connections(wp) ==
    { << field_value(wp[i].layers["ip"], "ip_src"),
         field_value(wp[i].layers["ip"], "ip_dst") >> :
        i \in {j \in DOMAIN wp : /\ HasIpDict(wp[j].layers)
                                 /\ Truthy(field_value(wp[j].layers["ip"], "ip_src"))
                                 /\ Truthy(field_value(wp[j].layers["ip"], "ip_dst"))} }

\* _extract_connection_features
extract_connection_features(wp) ==
    [ unique_sources |-> Num(Cardinality(unique_sources(wp))),
      unique_destinations |-> Num(Cardinality(unique_destinations(wp))),
      unique_connections |-> Num(Cardinality(connections(wp))),
      connection_diversity |->
          Frac(Cardinality(connections(wp)),
               Max(Cardinality(unique_sources(wp))
                     * Cardinality(unique_destinations(wp)), 1)) ]

\* _extract_size_features
extract_size_features(wp) ==
    CHOOSE f \in
      { IF sizes # <<>>
          THEN [ avg_packet_size |-> Mean(sizes),
                 min_packet_size |-> Num(MinSeq(sizes)),
                 max_packet_size |-> Num(MaxSeq(sizes)),
                 std_packet_size |-> StdSquared(sizes) ]
          ELSE [ avg_packet_size |-> Num(0), min_packet_size |-> Num(0),
                 max_packet_size |-> Num(0), std_packet_size |-> Num(0) ] :
        sizes \in {packet_sizes(wp)} } : TRUE

\* the call raises: the size of the window is divided by window_size, and
\* the flow and connection helpers index into list values
extract_raises(wp, w) ==
    \/ w = 0
    \/ \E i \in DOMAIN wp : flow_raises(wp[i].layers)
    \/ \E i \in DOMAIN wp : connection_raises(wp[i].layers)

\* the feature map built for a non-empty window
window_features(wp, w) ==
    LET total_protocol ==
            protocol_counts(wp, "tcp") + protocol_counts(wp, "udp")
              + protocol_counts(wp, "icmp") + protocol_counts(wp, "other")
        ratio(name) ==
            IF total_protocol > 0
              THEN Frac(protocol_counts(wp, name), total_protocol)
              ELSE Num(0)
        basic ==
            [ packet_count |-> Num(Len(wp)),
              packet_rate |-> Frac(Len(wp), w),
              total_bytes |-> Num(total_bytes(wp)),
              byte_rate |-> IF w > 0 THEN Frac(total_bytes(wp), w) ELSE Num(0),
              tcp_ratio |-> ratio("tcp"),
              udp_ratio |-> ratio("udp"),
              icmp_ratio |-> ratio("icmp"),
              other_ratio |-> ratio("other") ]
    IN  extract_size_features(wp)
          @@ extract_connection_features(wp)
          @@ extract_flow_features(wp)
          @@ basic

NoMap == <<>>

\* no call has just returned
NoResult == [status |-> "none", map |-> NoMap, vector |-> <<>>]

Returned(map) == [status |-> "ok", map |-> map, vector |-> <<>>]

Raised == [status |-> "raised", map |-> NoMap, vector |-> <<>>]

\* extract_features() on the buffer buf at time t with window size w
extract_features(buf, t, w) ==
    IF buf = <<>> THEN Returned(get_default_features)
    ELSE CHOOSE r \in
           { IF wp = <<>> THEN Returned(get_default_features)
             ELSE IF extract_raises(wp, w) THEN Raised
             ELSE Returned(window_features(wp, w)) :
             wp \in {window_packets(buf, t, w)} } : TRUE

\* features.get(key, 0)
GetOrZero(map, key) == IF key \in DOMAIN map THEN map[key] ELSE Num(0)

\* np.array([features.get(key, 0) for key in feature_order])
project(map) ==
    [i \in DOMAIN feature_order |-> GetOrZero(map, feature_order[i])]

\* the value get_feature_vector returns for what extract_features gave it
vector_of(r) ==
    IF r.status = "raised" THEN Raised
    ELSE [status |-> "ok", map |-> r.map, vector |-> project(r.map)]

\* get_feature_vector(): extract_features() again, laid out in feature_order
get_feature_vector(buf, t, w) ==
    LET r == CHOOSE r \in {extract_features(buf, t, w)} : TRUE
    IN  vector_of(r)

(***************************************************************************)
(* The operations of the window aggregator.                                *)
(***************************************************************************)
\* the timestamps a packet handed over at time t can carry: any capture
\* time up to t, in any order, or a string that does not parse
Timestamps(t) == {IsoTime(u) : u \in 0..t} \cup {BadTime}

\* the packets the feature model ingests at time t
Records(t) ==
    {[timestamp |-> IsoTime(u), layers |-> l] : u \in 0..t, l \in SampleLayers}

\* the batches the ingest model hands over at time t when k records have
\* been appended so far: one or two packets, numbered from k + 1 on
NumberedBatches(k, t) ==
    {<<[timestamp |-> ts, layers |-> NumberedLayers(k + 1)]>> :
        ts \in Timestamps(t)}
    \cup
    {<<[timestamp |-> ts1, layers |-> NumberedLayers(k + 1)],
       [timestamp |-> ts2, layers |-> NumberedLayers(k + 2)]>> :
        ts1 \in {IsoTime(u) : u \in 0..t}, ts2 \in Timestamps(t)}
    \cup
    {<<[timestamp |-> BadTime, layers |-> NumberedLayers(k + 1)],
       [timestamp |-> IsoTime(t), layers |-> NumberedLayers(k + 1)]>>}

\* add_packets(batch): the for loop appends record after record until the
\* batch ends or a timestamp does not parse
add_packets(batch) ==
    /\ packet_buffer' = AppendAll(packet_buffer, Accepted(batch), maxlen)
    /\ features' = NoResult
    /\ feature_vector' = NoResult
    /\ UNCHANGED <<tvars, statistics, avars, qvars,now, window_size>>

\* add_packets in the ingest model, which counts the appended records: at
\* most MaxIngest in all
ingest_batch ==
    \E batch \in NumberedBatches(ingested, now) :
       /\ ingested + Len(Accepted(batch)) <= MaxIngest
       /\ add_packets(batch)
       /\ ingested' = ingested + Len(Accepted(batch))

\* add_packets in the feature model: packet by packet, any number of them
ingest_packet ==
    \E record \in Records(now) :
       /\ add_packets(<<record>>)
       /\ UNCHANGED ingested

\* an extract_features that keeps only the window in the retained history
extract_features_call_trimming ==
    /\ \E r \in {extract_features(packet_buffer, now, window_size)} :
          features' = r
    /\ packet_buffer' = window_packets(packet_buffer, now, window_size)
    /\ feature_vector' = NoResult
    /\ UNCHANGED <<tvars, statistics, avars, qvars, now, window_size, ingested>>

\* features = extract_features()
extract_features_call ==
    /\ \E r \in {extract_features(packet_buffer, now, window_size)} :
          features' = r
    /\ feature_vector' = NoResult
    /\ UNCHANGED <<tvars, statistics, avars, qvars,now, packet_buffer, window_size, ingested>>

\* feature_vector = get_feature_vector()
get_feature_vector_call ==
    /\ \E v \in {get_feature_vector(packet_buffer, now, window_size)} :
          feature_vector' = v
    /\ features' = NoResult
    /\ UNCHANGED <<tvars, statistics, avars, qvars,now, packet_buffer, window_size, ingested>>

\* time passes; the values the last calls returned are history by then
Tick ==
    /\ now < MaxTime
    /\ now' = now + 1
    /\ features' = NoResult
    /\ feature_vector' = NoResult
    /\ UNCHANGED <<tvars, statistics, avars, qvars,packet_buffer, window_size, ingested>>

(***************************************************************************)
(* Windows of malformed and of uniform records.                            *)
(***************************************************************************)
\* a tcp record of the flow a:1 -> b:2 whose length field is `len`
UniformTcp(len) ==
    [ip  |-> Dict([ip_src |-> PyStr(<<"a">>), ip_dst |-> PyStr(<<"b">>),
                   ip_len |-> len]),
     tcp |-> Dict([tcp_srcport |-> PyInt(1), tcp_dstport |-> PyInt(2)])]

\* the layer maps of the window model: uniform tcp records with an int or a
\* str length, and malformed ones (an empty sequence as a field value, a
\* non-numeric value, layers that are not mappings, absent fields, no
\* layers at all)
WindowLayers ==
    {UniformTcp(PyInt(L)) : L \in 0..MaxLength}
    \cup
    { UniformTcp(PyStr(<<"7">>)),
      [ip |-> Dict([ip_src |-> PyList(<<>>), ip_dst |-> PyStr(<<"b">>)])],
      [ip |-> Dict([ip_len |-> PyStr(<<"x">>)]), udp |-> Dict(NoFields)],
      [ip |-> NotDict, tcp |-> NotDict],
      NoLayers }

\* add_packets in the window model: one record captured now
ingest_window ==
    \E l \in WindowLayers :
       /\ add_packets(<<[timestamp |-> IsoTime(now), layers |-> l]>>)
       /\ UNCHANGED ingested

(***************************************************************************)
(* AnomalyDetector.predict and predict_proba.  A batch is given by the raw *)
(* scores the fitted model assigns to its rows (score_samples, or the      *)
(* reconstruction error); what the model predicts for a row is its own.    *)
(***************************************************************************)
\* 1 / 1e-8, the epsilon of the normalisation
EpsInverse == 100000000

RawBatches == UNION {[1..n -> 0..MaxRawScore] : n \in 1..MaxBatch}

\* a predict that asks the model whether it is trained or not
Predictions_of_model(trained, n) == [1..n -> {-1, 1}]

\* predict: np.ones(len(X)) when not trained, else the model's predictions
Predictions(trained, n) ==
    IF trained THEN [1..n -> {-1, 1}] ELSE {[i \in 1..n |-> 1]}

\* a normalisation that does not subtract the minimum
predict_proba_unshifted(trained, raw) ==
    IF ~trained THEN [i \in DOMAIN raw |-> Num(0)]
    ELSE [i \in DOMAIN raw |->
            Frac(raw[i] * EpsInverse,
                 (MaxSeq(raw) - MinSeq(raw)) * EpsInverse + 1)]

\* a normalisation by the largest score of the batch alone
predict_proba_by_max(trained, raw) ==
    IF ~trained THEN [i \in DOMAIN raw |-> Num(0)]
    ELSE [i \in DOMAIN raw |->
            Frac(raw[i] * EpsInverse, MaxSeq(raw) * EpsInverse + 1)]

\* predict_proba: np.zeros(len(X)) when not trained, else
\* (scores - scores.min()) / (scores.max() - scores.min() + 1e-8)
predict_proba(trained, raw) ==
    IF ~trained THEN [i \in DOMAIN raw |-> Num(0)]
    ELSE [i \in DOMAIN raw |->
            Frac((raw[i] - MinSeq(raw)) * EpsInverse,
                 (MaxSeq(raw) - MinSeq(raw)) * EpsInverse + 1)]

NoScore == [raw |-> <<>>, predictions |-> <<>>, scores |-> <<>>]

\* train(X_train): the model is fitted; earlier results are dropped
train ==
    /\ is_trained' = TRUE
    /\ scored' = NoScore
    /\ UNCHANGED <<tvars, statistics, is_running, is_capturing, capture_threads, analysis,
                   detection_count, normal_count, detection_log, alert_log,
                   agent_log, qvars, now, fvars>>

\* predict(X), by a caller that holds no earlier result
predict_call ==
    /\ scored = NoScore
    /\ \E raw \in RawBatches : \E p \in Predictions(is_trained, Len(raw)) :
          scored' = [raw |-> raw, predictions |-> p, scores |-> <<>>]
    /\ UNCHANGED <<tvars, statistics, is_running, is_capturing, capture_threads, analysis,
                   detection_count, normal_count, detection_log, alert_log,
                   agent_log, is_trained, qvars, now, fvars>>

\* predict_proba(X), by a caller that holds no earlier result
predict_proba_call ==
    /\ scored = NoScore
    /\ \E raw \in RawBatches :
          scored' = [raw |-> raw, predictions |-> <<>>,
                     scores |-> predict_proba(is_trained, raw)]
    /\ UNCHANGED <<tvars, statistics, is_running, is_capturing, capture_threads, analysis,
                   detection_count, normal_count, detection_log, alert_log,
                   agent_log, is_trained, qvars, now, fvars>>

(***************************************************************************)
(* FogAgent: start, stop, the capture threads and the analysis threads.    *)
(* start() and stop() are made by one caller and are one step each; a      *)
(* capture thread's loop iteration is one step; a cycle of an analysis     *)
(* thread is the loop test, the drain, the analysis and the sleep.         *)
(***************************************************************************)
Threads == 1..MaxThreads

\* no thread in this slot: never started, or it has left its loop
NoThread ==
    [pc |-> "none", packets |-> <<>>, features |-> NoResult, numpy_ints |-> FALSE,
     feature_vector |-> NoResult, is_anomaly |-> FALSE, anomaly_score |-> Num(0)]

\* the layer maps the capture threads deliver: a packet without an ip layer,
\* an ordinary tcp packet, and one with an empty sequence as its source
AgentLayers ==
    { [arp |-> Dict(NoFields)],
      UniformTcp(PyInt(2)),
      [ip |-> Dict([ip_src |-> PyList(<<>>), ip_dst |-> PyStr(<<"b">>)])] }

\* the outcomes of predict and predict_proba on the one-row batch of a
\* cycle, for the agent's own detector
DetectorOutcomes ==
    {[prediction |-> p[1], score |-> predict_proba(is_trained, <<raw>>)[1]] :
        p \in Predictions(is_trained, 1), raw \in 0..MaxRawScore}

\* the outcomes for any implementation of the scoring port: either
\* prediction, and scores around the two thresholds
PortOutcomes ==
    {[prediction |-> p, score |-> s] :
        p \in {-1, 1}, s \in {<<7, 10>>, <<3, 4>>, <<4, 5>>, <<9, 10>>}}

\* whether a write to the detection sink and to the alert sink succeeds
\* (open(..., 'a') and f.write): always, or either may fail
WorkingSinks == {[detections |-> TRUE, alerts |-> TRUE]}

AnySinks == [detections : BOOLEAN, alerts : BOOLEAN]

\* json.dumps(features) raises TypeError: np.max of the packet counts of the
\* flows and np.min / np.max of the packet sizes are numpy integers
json_dumps_raises(wp) ==
    wp # <<>> /\ (flow_keys(wp) # <<>> \/ packet_sizes(wp) # <<>>)

\* a start() without the test of is_running
start_unguarded ==
    /\ Len(agent_log) < MaxCalls
    /\ \E t \in Threads :
          /\ analysis[t].pc = "none"
          /\ \A u \in 1..(t - 1) : analysis[u].pc # "none"
          /\ analysis' = [analysis EXCEPT ![t] = [NoThread EXCEPT !.pc = "while"]]
    /\ is_capturing \/ capture_threads < MaxThreads
    /\ is_running' = TRUE
    /\ is_capturing' = TRUE
    /\ capture_threads' = IF is_capturing THEN capture_threads
                                          ELSE capture_threads + 1
    /\ agent_log' = Append(agent_log, "started")
    /\ UNCHANGED <<tvars, statistics, detection_count, normal_count, detection_log, alert_log,
                   is_trained, scored, qvars, now, fvars>>

\* FogAgent.start(): a warning and nothing else when already running; else
\* is_running is set, start_capture() starts a capture thread unless
\* is_capturing, and a new analysis thread is started
start ==
    /\ Len(agent_log) < MaxCalls
    /\ IF is_running
         THEN /\ agent_log' = Append(agent_log, "already running")
              /\ UNCHANGED <<is_running, is_capturing, capture_threads, analysis>>
         ELSE /\ \E t \in Threads :
                    /\ analysis[t].pc = "none"
                    /\ \A u \in 1..(t - 1) : analysis[u].pc # "none"
                    /\ analysis' = [analysis EXCEPT
                                      ![t] = [NoThread EXCEPT !.pc = "while"]]
              /\ is_capturing \/ capture_threads < MaxThreads
              /\ is_running' = TRUE
              /\ is_capturing' = TRUE
              /\ capture_threads' = IF is_capturing THEN capture_threads
                                                    ELSE capture_threads + 1
              /\ agent_log' = Append(agent_log, "started")
    /\ UNCHANGED <<tvars, statistics, detection_count, normal_count, detection_log, alert_log,
                   is_trained, scored, qvars, now, fvars>>

\* FogAgent.stop(): both flags are cleared and the stop is logged
stop ==
    /\ Len(agent_log) < MaxCalls
    /\ is_running' = FALSE
    /\ is_capturing' = FALSE
    /\ agent_log' = Append(agent_log, "stopped")
    /\ UNCHANGED <<tvars, statistics, capture_threads, analysis, detection_count, normal_count,
                   detection_log, alert_log, is_trained, scored, qvars, now, fvars>>

\* one iteration of a capture thread's loop: it leaves the loop when
\* is_capturing is false, else it pushes a packet (the oldest one is
\* dropped from a full queue)
simulate_capture ==
    /\ capture_threads > 0
    /\ IF is_capturing
         THEN /\ pushed < MaxCaptured
              /\ \E l \in AgentLayers :
                    capture_queue' =
                        QueuePut(IF QueueFull(capture_queue, buffer_size)
                                   THEN QueueGetRest(capture_queue)
                                   ELSE capture_queue,
                                 [timestamp |-> IsoTime(now), layers |-> l])
              /\ pushed' = pushed + 1
              /\ UNCHANGED capture_threads
         ELSE /\ capture_threads' = capture_threads - 1
              /\ UNCHANGED <<capture_queue, pushed>>
    /\ UNCHANGED <<tvars, statistics, buffer_size, ppc, packet, dropped, cpc, packets, max_packets,
                   end_time, delivered, now, fvars, is_running, is_capturing,
                   analysis, detection_count, normal_count, detection_log,
                   alert_log, agent_log, is_trained, scored>>

\* a loop test that does not read is_running
loop_test_forever(t) ==
    /\ analysis[t].pc = "while"
    /\ analysis' = [analysis EXCEPT ![t].pc = "get_packets"]
    /\ UNCHANGED <<tvars, statistics, is_running, is_capturing, capture_threads, detection_count,
                   normal_count, detection_log, alert_log, agent_log,
                   is_trained, scored, qvars, now, fvars>>

\* while self.is_running: the thread enters a cycle or leaves the loop
loop_test(t) ==
    /\ analysis[t].pc = "while"
    /\ analysis' = [analysis EXCEPT
                      ![t].pc = IF is_running THEN "get_packets" ELSE "none"]
    /\ UNCHANGED <<tvars, statistics, is_running, is_capturing, capture_threads, detection_count,
                   normal_count, detection_log, alert_log, agent_log,
                   is_trained, scored, qvars, now, fvars>>

\* packets = self.capture.get_packets(timeout=5.0, max_packets=1000): the
\* thread takes what the queue holds; with nothing it goes to sleep
cycle_get_packets(t) ==
    /\ analysis[t].pc = "get_packets"
    /\ analysis' = [analysis EXCEPT
                      ![t].packets = capture_queue,
                      ![t].pc = IF capture_queue # <<>> THEN "analyse" ELSE "sleep"]
    /\ capture_queue' = <<>>
    /\ UNCHANGED <<tvars, statistics, buffer_size, ppc, packet, pushed, dropped, cpc, packets,
                   max_packets, end_time, delivered, now, fvars, is_running,
                   is_capturing, capture_threads, detection_count, normal_count,
                   detection_log, alert_log, agent_log, is_trained, scored>>

\* the DetectionRecord of a cycle; `run` and `after_stop` stand for its
\* timestamp: the number of starts so far, and whether stop() had returned
DetectionRecord(o) ==
    [is_anomaly |-> o.prediction = -1, anomaly_score |-> o.score,
     run |-> Cardinality({i \in DOMAIN agent_log : agent_log[i] = "started"}),
     after_stop |-> ~is_running]

\* the AlertRecord _handle_anomaly builds
AlertRecord(score) ==
    [severity |-> IF ~FracLE(score, <<4, 5>>) THEN "HIGH" ELSE "MEDIUM",
     anomaly_score |-> score]

\* a scoring whose sink writes are not guarded: a failed write ends the
\* cycle in the handler, before the counters
detect_anomalies_unguarded_write(t, o, numpy_ints, sink) ==
    LET alert == o.prediction = -1 /\ ~FracLE(o.score, <<7, 10>>)
        failed == ~sink.detections \/ (alert /\ ~sink.alerts)
    IN  /\ detection_log' =
               IF numpy_ints \/ ~sink.detections THEN detection_log
               ELSE Append(detection_log, DetectionRecord(o))
        /\ alert_log' =
               IF alert /\ ~numpy_ints /\ ~failed
                 THEN Append(alert_log, AlertRecord(o.score))
                 ELSE alert_log
        /\ detection_count' =
               IF alert /\ ~numpy_ints /\ ~failed THEN detection_count + 1
               ELSE detection_count
        /\ normal_count' =
               IF alert \/ failed THEN normal_count ELSE normal_count + 1
        /\ analysis' =
               [analysis EXCEPT
                  ![t].pc = IF failed \/ (alert /\ numpy_ints)
                              THEN "except" ELSE "sleep",
                  ![t].packets = <<>>,
                  ![t].is_anomaly = (o.prediction = -1),
                  ![t].anomaly_score = o.score]

\* the scoring of a cycle, with the outcome o of predict and predict_proba:
\* _log_detection (a json.dumps that raises and a write that fails are
\* absorbed, the record is not written), and for an anomaly with a score
\* above 0.7 _handle_anomaly (its first json.dumps is not guarded and ends
\* the cycle in the handler; a failed write of the alert is absorbed) and
\* detection_count += 1, else normal_count += 1
detect_anomalies(t, o, numpy_ints, sink) ==
    LET alert == o.prediction = -1 /\ ~FracLE(o.score, <<7, 10>>)
    IN  /\ detection_log' =
               IF numpy_ints \/ ~sink.detections THEN detection_log
               ELSE Append(detection_log, DetectionRecord(o))
        /\ alert_log' =
               IF alert /\ ~numpy_ints /\ sink.alerts
                 THEN Append(alert_log, AlertRecord(o.score))
                 ELSE alert_log
        /\ detection_count' =
               IF alert /\ ~numpy_ints THEN detection_count + 1
               ELSE detection_count
        /\ normal_count' =
               IF alert THEN normal_count ELSE normal_count + 1
        /\ analysis' =
               [analysis EXCEPT
                  ![t].pc = IF alert /\ numpy_ints THEN "except" ELSE "sleep",
                  ![t].packets = <<>>,
                  ![t].is_anomaly = (o.prediction = -1),
                  ![t].anomaly_score = o.score]

\* the rest of a cycle that drained packets, at one reading of the clock:
\* add_packets, extract_features and get_feature_vector (an exception ends
\* the cycle in the handler), then the scoring
cycle_analyse(t, outcomes, sinks) ==
    /\ analysis[t].pc = "analyse"
    /\ \E batch \in {analysis[t].packets} :
       \E buf \in {AppendAll(packet_buffer, Accepted(batch), maxlen)} :
           /\ packet_buffer' = buf
           /\ \E r \in {extract_features(buf, now, window_size)} :
                IF Len(Accepted(batch)) < Len(batch) \/ r.status = "raised"
                  THEN /\ analysis' = [analysis EXCEPT ![t].pc = "except",
                                                       ![t].packets = <<>>]
                       /\ UNCHANGED <<detection_count, normal_count,
                                      detection_log, alert_log>>
                  ELSE \E o \in outcomes : \E sink \in sinks :
                         detect_anomalies(
                            t, o,
                            json_dumps_raises(window_packets(buf, now, window_size)),
                            sink)
    /\ UNCHANGED <<tvars, statistics, qvars, now, window_size, ingested, features,
                   feature_vector, is_running, is_capturing, capture_threads,
                   agent_log, is_trained, scored>>

\* a loop whose handler lets the exception go: the thread ends with it
time_sleep_reraise(t) ==
    /\ analysis[t].pc \in {"sleep", "except"}
    /\ analysis' = [analysis EXCEPT
                      ![t] = [NoThread EXCEPT
                                !.pc = IF analysis[t].pc = "except"
                                         THEN "none" ELSE "while"]]
    /\ UNCHANGED <<tvars, statistics, is_running, is_capturing, capture_threads,
                   detection_count, normal_count, detection_log, alert_log,
                   agent_log, is_trained, scored, qvars, now, fvars>>

\* time.sleep(5), at the end of a cycle or in the exception handler; the
\* locals of the cycle are not read again
time_sleep(t) ==
    /\ analysis[t].pc \in {"sleep", "except"}
    /\ analysis' = [analysis EXCEPT ![t] = [NoThread EXCEPT !.pc = "while"]]
    /\ UNCHANGED <<tvars, statistics, is_running, is_capturing, capture_threads, detection_count,
                   normal_count, detection_log, alert_log, agent_log,
                   is_trained, scored, qvars, now, fvars>>

(***************************************************************************)
(* The steps of one cycle, taken one by one while the clock runs: lines    *)
(* 119 to 141 of _analysis_loop.                                           *)
(***************************************************************************)
\* self.feature_extractor.add_packets(packets)
cycle_add_packets(t) ==
    /\ analysis[t].pc = "analyse"
    /\ \E batch \in {analysis[t].packets} :
          /\ packet_buffer' = AppendAll(packet_buffer, Accepted(batch), maxlen)
          /\ analysis' = [analysis EXCEPT
                            ![t].pc = IF Len(Accepted(batch)) < Len(batch)
                                        THEN "except" ELSE "extract_features",
                            ![t].packets = <<>>]
    /\ UNCHANGED <<tvars, statistics, qvars, now, window_size, ingested, features,
                   feature_vector, is_running, is_capturing, capture_threads,
                   detection_count, normal_count, detection_log, alert_log,
                   agent_log, is_trained, scored>>

\* features = self.feature_extractor.extract_features()
cycle_extract_features(t) ==
    /\ analysis[t].pc = "extract_features"
    /\ \E r \in {extract_features(packet_buffer, now, window_size)} :
          analysis' = [analysis EXCEPT
                         ![t].features = r,
                         ![t].numpy_ints =
                             /\ r.status = "ok"
                             /\ json_dumps_raises(
                                   window_packets(packet_buffer, now, window_size)),
                         ![t].pc = IF r.status = "raised"
                                     THEN "except" ELSE "get_feature_vector"]
    /\ UNCHANGED <<tvars, statistics, qvars, now, fvars, is_running, is_capturing,
                   capture_threads, detection_count, normal_count,
                   detection_log, alert_log, agent_log, is_trained, scored>>

\* feature_vector = self.feature_extractor.get_feature_vector()
cycle_get_feature_vector(t) ==
    /\ analysis[t].pc = "get_feature_vector"
    /\ \E v \in {get_feature_vector(packet_buffer, now, window_size)} :
          analysis' = [analysis EXCEPT
                         ![t].feature_vector = v,
                         ![t].pc = IF v.status = "raised"
                                     THEN "except" ELSE "detect"]
    /\ UNCHANGED <<tvars, statistics, qvars, now, fvars, is_running, is_capturing,
                   capture_threads, detection_count, normal_count,
                   detection_log, alert_log, agent_log, is_trained, scored>>

\* predict and predict_proba on the vector, _log_detection(features, ...)
\* and the threshold test
cycle_detect(t, outcomes, sinks) ==
    /\ analysis[t].pc = "detect"
    /\ \E o \in outcomes : \E sink \in sinks :
          detect_anomalies(t, o, analysis[t].numpy_ints, sink)
    /\ UNCHANGED <<tvars, statistics, qvars, now, fvars, is_running, is_capturing,
                   capture_threads, agent_log, is_trained, scored>>

(***************************************************************************)
(* FogAgent.get_statistics, called by another thread than the analysis     *)
(* thread: the map is built entry by entry, each read of an attribute is   *)
(* one step.                                                               *)
(***************************************************************************)
NoStatistics ==
    [pc |-> "none", is_running |-> FALSE, detection_count |-> 0,
     normal_count |-> 0, total_analyzed |-> 0, anomaly_rate |-> Num(0),
     packet_queue_size |-> 0, read |-> <<>>]

\* the call, up to 'is_running': self.is_running
get_statistics_call ==
    /\ statistics.pc = "none"
    /\ statistics' = [statistics EXCEPT !.pc = "detection_count",
                                        !.is_running = is_running]
    /\ UNCHANGED <<qvars, now, fvars, avars, tvars>>

\* the next read of self.detection_count or self.normal_count; `read`
\* holds the operands of the entry being computed; the last entry is
\* capture.get_packet_count(), and the map is returned
get_statistics_read ==
    /\ statistics.pc \notin {"none", "returned"}
    /\ statistics' =
          CASE statistics.pc = "detection_count" ->
                 [statistics EXCEPT !.detection_count = detection_count,
                                    !.pc = "normal_count"]
            [] statistics.pc = "normal_count" ->
                 [statistics EXCEPT !.normal_count = normal_count,
                                    !.pc = "total_analyzed"]
            [] statistics.pc = "total_analyzed" /\ statistics.read = <<>> ->
                 [statistics EXCEPT !.read = <<detection_count>>]
            [] statistics.pc = "total_analyzed" /\ statistics.read # <<>> ->
                 [statistics EXCEPT
                    !.total_analyzed = statistics.read[1] + normal_count,
                    !.read = <<>>,
                    !.pc = "anomaly_rate"]
            [] statistics.pc = "anomaly_rate" /\ Len(statistics.read) < 2 ->
                 [statistics EXCEPT !.read = Append(@, detection_count)]
            [] statistics.pc = "anomaly_rate" /\ Len(statistics.read) = 2 ->
                 [statistics EXCEPT
                    !.anomaly_rate =
                        Frac(statistics.read[1],
                             Max(statistics.read[2] + normal_count, 1)),
                    !.read = <<>>,
                    !.pc = "packet_queue_size"]
            [] statistics.pc = "packet_queue_size" ->
                 [statistics EXCEPT !.packet_queue_size = Len(capture_queue),
                                    !.pc = "returned"]
    /\ UNCHANGED <<qvars, now, fvars, avars, tvars>>

(***************************************************************************)
(* TrafficCapture: start_capture, stop_capture and the capture threads     *)
(* that run tshark.                                                        *)
(***************************************************************************)
\* no capture thread in this slot; `process` is the Popen object the
\* thread reads from
NoCaptureThread == [pc |-> "none", process |-> 0]

\* TrafficCapture.start_capture(): a warning when already capturing, else
\* is_capturing is set and a thread is started on _capture_loop
start_capture ==
    /\ Len(agent_log) < MaxCalls
    /\ IF is_capturing
         THEN /\ agent_log' = Append(agent_log, "capture already running")
              /\ UNCHANGED <<is_capturing, capture_thread>>
         ELSE /\ \E t \in Threads :
                    /\ capture_thread[t].pc = "none"
                    /\ \A u \in 1..(t - 1) : capture_thread[u].pc # "none"
                    /\ capture_thread' =
                          [capture_thread EXCEPT ![t].pc = "Popen"]
              /\ is_capturing' = TRUE
              /\ agent_log' = Append(agent_log, "capture started")
    /\ UNCHANGED <<tshark_process, processes, statistics, qvars, now, fvars,
                   is_running, capture_threads, analysis, detection_count,
                   normal_count, detection_log, alert_log, is_trained, scored>>

\* TrafficCapture.stop_capture(): is_capturing is cleared, and the process
\* self.tshark_process refers to, if any, is terminated (killed when it
\* does not end within 5 s)
stop_capture ==
    /\ Len(agent_log) < MaxCalls
    /\ is_capturing' = FALSE
    /\ processes' = IF tshark_process # 0
                      THEN [processes EXCEPT ![tshark_process] = "terminated"]
                      ELSE processes
    /\ agent_log' = Append(agent_log, "capture stopped")
    /\ UNCHANGED <<tshark_process, capture_thread, statistics, qvars, now, fvars,
                   is_running, capture_threads, analysis, detection_count,
                   normal_count, detection_log, alert_log, is_trained, scored>>

\* self.tshark_process = subprocess.Popen(cmd, ...): the process is
\* created, or Popen raises and the thread goes to its finally clause
capture_Popen(t) ==
    /\ capture_thread[t].pc = "Popen"
    /\ \E created \in BOOLEAN :
          IF created
            THEN /\ processes' = Append(processes, "running")
                 /\ tshark_process' = Len(processes) + 1
                 /\ capture_thread' =
                       [capture_thread EXCEPT
                          ![t] = [pc |-> "readline", process |-> Len(processes) + 1]]
            ELSE /\ capture_thread' = [capture_thread EXCEPT ![t].pc = "finally"]
                 /\ UNCHANGED <<processes, tshark_process>>
    /\ UNCHANGED <<statistics, qvars, now, fvars, avars>>

\* the thread's process writes a line that completes a packet: the loop
\* breaks when is_capturing is false, else _process_packet pushes the
\* packet (the oldest one is dropped from a full queue)
capture_readline(t) ==
    /\ capture_thread[t].pc = "readline"
    /\ processes[capture_thread[t].process] = "running"
    /\ IF is_capturing
         THEN /\ pushed < MaxCaptured
              /\ capture_queue' =
                    QueuePut(IF QueueFull(capture_queue, buffer_size)
                               THEN QueueGetRest(capture_queue)
                               ELSE capture_queue,
                             [timestamp |-> IsoTime(now),
                              layers |-> UniformTcp(PyInt(2))])
              /\ pushed' = pushed + 1
              /\ UNCHANGED capture_thread
         ELSE /\ capture_thread' = [capture_thread EXCEPT ![t].pc = "finally"]
              /\ UNCHANGED <<capture_queue, pushed>>
    /\ UNCHANGED <<tshark_process, processes, statistics, buffer_size, ppc,
                   packet, dropped, cpc, packets, max_packets, end_time,
                   delivered, now, fvars, avars>>

\* the thread's process has ended: readline returns '' and the for loop
\* is over
capture_eof(t) ==
    /\ capture_thread[t].pc = "readline"
    /\ processes[capture_thread[t].process] = "terminated"
    /\ capture_thread' = [capture_thread EXCEPT ![t].pc = "finally"]
    /\ UNCHANGED <<tshark_process, processes, statistics, qvars, now, fvars, avars>>

\* finally: if self.tshark_process: self.tshark_process.terminate(); the
\* thread ends
capture_finally(t) ==
    /\ capture_thread[t].pc = "finally"
    /\ processes' = IF tshark_process # 0
                      THEN [processes EXCEPT ![tshark_process] = "terminated"]
                      ELSE processes
    /\ capture_thread' = [capture_thread EXCEPT ![t] = NoCaptureThread]
    /\ UNCHANGED <<tshark_process, statistics, qvars, now, fvars, avars>>

(***************************************************************************)
(* Specifications.                                                         *)
(***************************************************************************)
\* the capture object after __init__
CaptureInit ==
    /\ capture_queue = <<>>
    /\ ppc = "idle"
    /\ packet = 0
    /\ pushed = 0
    /\ dropped = {}
    /\ cpc = "idle"
    /\ packets = <<>>
    /\ max_packets = 0
    /\ end_time = 0
    /\ delivered = <<>>

\* the feature extractor after __init__
ExtractorInit ==
    /\ packet_buffer = <<>>
    /\ window_size = WindowSize
    /\ ingested = 0
    /\ features = NoResult
    /\ feature_vector = NoResult

\* the agent after __init__ (the detector apart)
AgentInit ==
    /\ is_running = FALSE
    /\ is_capturing = FALSE
    /\ capture_threads = 0
    /\ analysis = [t \in Threads |-> NoThread]
    /\ detection_count = 0
    /\ normal_count = 0
    /\ detection_log = <<>>
    /\ alert_log = <<>>
    /\ agent_log = <<>>
    /\ scored = NoScore
    /\ tshark_process = 0
    /\ processes = <<>>
    /\ capture_thread = [t \in Threads |-> NoCaptureThread]
    /\ statistics = NoStatistics

Init ==
    /\ buffer_size \in 1..MaxBufferSize
    /\ CaptureInit
    /\ ExtractorInit
    /\ AgentInit
    /\ is_trained = TRUE
    /\ now = 0

\* the same with a capture object that stays as constructed
AggregatorInit ==
    /\ buffer_size = MaxBufferSize
    /\ CaptureInit
    /\ ExtractorInit
    /\ AgentInit
    /\ is_trained = TRUE
    /\ now = 0

\* the ingestion buffer with one producer and one consumer
Next ==
    \/ put_nowait
    \/ drop_oldest
    \/ retry_put
    \/ get_packets_call
    \/ get_packets_loop
    \/ Tick

Spec == Init /\ [][Next]_vars

\* the consumer thread is scheduled: a get_packets call in progress takes
\* its next step (queue.get(timeout=0.1) itself returns within its timeout)
LiveSpec == Init /\ [][Next]_vars /\ WF_vars(get_packets_loop)

\* the aggregator fed batch after batch and read in between, the appended
\* records counted
IngestNext ==
    \/ ingest_batch
    \/ extract_features_call
    \/ Tick

IngestSpec == AggregatorInit /\ [][IngestNext]_vars

\* the aggregator fed packet by packet and read at any time
FeatureNext ==
    \/ ingest_packet
    \/ extract_features_call
    \/ get_feature_vector_call
    \/ Tick

FeatureSpec == AggregatorInit /\ [][FeatureNext]_vars

\* the aggregator fed windows of uniform and of malformed records
WindowNext ==
    \/ ingest_window
    \/ extract_features_call
    \/ get_feature_vector_call

WindowSpec == AggregatorInit /\ [][WindowNext]_vars

\* a detector as constructed: not trained
DetectorInit ==
    /\ buffer_size = MaxBufferSize
    /\ CaptureInit
    /\ ExtractorInit
    /\ AgentInit
    /\ is_trained = FALSE
    /\ now = 0

DetectorNext ==
    \/ train
    \/ predict_call
    \/ predict_proba_call

DetectorSpec == DetectorInit /\ [][DetectorNext]_vars

\* the agent with its own detector
AgentNext ==
    \/ start
    \/ stop
    \/ simulate_capture
    \/ \E t \in Threads : loop_test(t)
    \/ \E t \in Threads : cycle_get_packets(t)
    \/ \E t \in Threads : cycle_analyse(t, DetectorOutcomes, WorkingSinks)
    \/ \E t \in Threads : time_sleep(t)

AgentSpec == AggregatorInit /\ [][AgentNext]_vars

\* every thread that can take a step is scheduled: time.sleep returns,
\* get_packets returns within its timeout, the analysis returns or raises
AgentLiveSpec ==
    /\ AgentSpec
    /\ \A t \in Threads :
          WF_vars(\/ loop_test(t)
                  \/ cycle_get_packets(t)
                  \/ cycle_analyse(t, DetectorOutcomes, WorkingSinks)
                  \/ time_sleep(t))

\* the agent with any implementation of the scoring port
PortNext ==
    \/ start
    \/ stop
    \/ simulate_capture
    \/ \E t \in Threads : loop_test(t)
    \/ \E t \in Threads : cycle_get_packets(t)
    \/ \E t \in Threads : cycle_analyse(t, PortOutcomes, WorkingSinks)
    \/ \E t \in Threads : time_sleep(t)

PortSpec == AggregatorInit /\ [][PortNext]_vars

\* an agent that is started, with any implementation of the scoring port
\* and with sinks whose writes may fail
SinkNext ==
    \/ start
    \/ simulate_capture
    \/ \E t \in Threads : loop_test(t)
    \/ \E t \in Threads : cycle_get_packets(t)
    \/ \E t \in Threads : cycle_analyse(t, PortOutcomes, AnySinks)
    \/ \E t \in Threads : time_sleep(t)

SinkSpec == AggregatorInit /\ [][SinkNext]_vars

\* an agent that is started and runs its cycles step by step while the
\* clock runs
CycleNext ==
    \/ start
    \/ simulate_capture
    \/ Tick
    \/ \E t \in Threads : loop_test(t)
    \/ \E t \in Threads : cycle_get_packets(t)
    \/ \E t \in Threads : cycle_add_packets(t)
    \/ \E t \in Threads : cycle_extract_features(t)
    \/ \E t \in Threads : cycle_get_feature_vector(t)
    \/ \E t \in Threads : cycle_detect(t, DetectorOutcomes, WorkingSinks)
    \/ \E t \in Threads : time_sleep(t)

CycleSpec == AggregatorInit /\ [][CycleNext]_vars

\* the agent and a caller of get_statistics
StatsNext ==
    \/ AgentNext
    \/ get_statistics_call
    \/ get_statistics_read

StatsSpec == AggregatorInit /\ [][StatsNext]_vars

\* a TrafficCapture object, its caller and its capture threads
TsharkNext ==
    \/ start_capture
    \/ stop_capture
    \/ \E t \in Threads : capture_Popen(t)
    \/ \E t \in Threads : capture_readline(t)
    \/ \E t \in Threads : capture_eof(t)
    \/ \E t \in Threads : capture_finally(t)

TsharkSpec == AggregatorInit /\ [][TsharkNext]_vars

\* the capture threads are scheduled: Popen returns or raises, readline
\* returns at the end of the process's output, the finally clause runs.
\* When the process writes a line is up to the traffic on the interface
\* and the capture filter: no fairness
TsharkLiveSpec ==
    /\ TsharkSpec
    /\ \A t \in Threads :
          WF_vars(capture_Popen(t) \/ capture_eof(t) \/ capture_finally(t))

(***************************************************************************)
(* Properties of the ingestion buffer.                                     *)
(***************************************************************************)
\* the consumer has taken nothing out of the queue so far
NoDrain == delivered = <<>> /\ packets = <<>>

\* C1: in every reachable state the number of records in capture_queue is
\* at most buffer_size, under any interleaving of pushes and drains
QueueBounded == Len(capture_queue) <= buffer_size

\* a push onto a full queue has evicted and inserted while the consumer
\* was draining, and the queue is full again
QueueBounded_witness ==
    /\ ppc = "idle"
    /\ pushed > buffer_size + 1
    /\ Len(capture_queue) = buffer_size
    /\ capture_queue[Len(capture_queue)] = packet
    /\ delivered # <<>>

\* C2: with no drain in between, after k pushes the queue holds exactly the
\* last min(k, buffer_size) pushed records in push order; in the middle of
\* a push onto a full queue exactly the oldest record has been evicted
DropOldestKeepsNewest ==
    NoDrain =>
       /\ ppc = "idle" =>
             capture_queue = LastN(Interval(1, pushed), buffer_size)
       /\ ppc = "full" =>
             capture_queue = LastN(Interval(1, pushed - 1), buffer_size)
       /\ ppc = "retry" =>
             capture_queue = LastN(Interval(1, pushed - 1), buffer_size - 1)
       /\ ppc # "raised"

\* several pushes beyond capacity have completed without any drain
DropOldestKeepsNewest_witness ==
    /\ NoDrain
    /\ cpc = "idle"
    /\ ppc = "idle"
    /\ buffer_size > 1
    /\ pushed >= buffer_size + 2
    /\ capture_queue = Interval(pushed - buffer_size + 1, pushed)

\* C3: every record the producer pushes has been inserted when its push
\* finishes; the new record is never the one that is discarded
PushAlwaysSucceeds == dropped = {}

\* C4: the concatenation of all lists returned by get_packets (and of the
\* list being filled) is a subsequence of the pushed records 1..pushed, in
\* arrival order and without repetition, and a call holds at most
\* max_packets records
DrainPreservesOrder ==
    LET all == IF cpc = "loop" THEN delivered \o packets ELSE delivered
    IN  /\ StrictlyIncreasing(all)
        /\ Range(all) \subseteq 1..pushed
        /\ Len(packets) <= max_packets
        /\ cpc = "idle" => packets = LastN(delivered, Len(packets))

\* two calls have returned records, a full one among them, and a record
\* between the delivered ones was evicted
DrainPreservesOrder_witness ==
    /\ cpc = "idle"
    /\ Len(delivered) > Len(packets)
    /\ Len(packets) = max_packets
    /\ max_packets > 1
    /\ \E i \in 1..(Len(delivered) - 1) : delivered[i + 1] > delivered[i] + 1

\* C5: every get_packets call terminates, on an empty queue and while the
\* producer keeps pushing
DrainTerminates == (cpc = "loop") ~> (cpc = "idle")

\* a call has returned a full list while the producer was in the middle
\* of a push and the queue still held records
DrainTerminates_witness ==
    /\ cpc = "idle"
    /\ max_packets > 0
    /\ Len(packets) = max_packets
    /\ capture_queue # <<>>
    /\ ppc # "idle"

(***************************************************************************)
(* Properties of the window aggregator.                                    *)
(***************************************************************************)
\* C6: after any sequence of add_packets calls the retained history holds
\* at most maxlen records, and they are exactly the most recently appended
\* ones in the order of appending, whatever their timestamps are
IngestKeepsNewest ==
    /\ Len(packet_buffer) = Min(ingested, maxlen)
    /\ \A i \in DOMAIN packet_buffer :
          packet_buffer[i].layers
             = NumberedLayers(ingested - Len(packet_buffer) + i)

\* records were evicted although the retained ones carry earlier
\* timestamps than the clock, the newest the earliest of all
IngestKeepsNewest_witness ==
    /\ ingested >= maxlen + 2
    /\ Len(packet_buffer) = maxlen
    /\ packet_buffer[Len(packet_buffer)].timestamp = 0
    /\ packet_buffer[1].timestamp = MaxTime

\* no retained record lies in the window that ends now
WindowEmpty ==
    \A i \in DOMAIN packet_buffer :
       packet_buffer[i].timestamp < now - window_size

AllNames == Range(feature_order)

\* C7: extract_features on an empty history, or on one whose records are
\* all older than now - window_size, returns a map that has every one of
\* the 21 feature names, each with value 0
EmptyWindowGivesZeros ==
    (features.status # "none" /\ WindowEmpty) =>
       /\ features.status = "ok"
       /\ Cardinality(AllNames) = 21
       /\ DOMAIN features.map = AllNames
       /\ \A name \in AllNames : features.map[name] = Num(0)

\* extract_features has returned for a history that is full and wholly
\* out of the window
EmptyWindowGivesZeros_witness ==
    /\ features.status = "ok"
    /\ Len(packet_buffer) = maxlen
    /\ WindowEmpty

\* C8: every map extract_features returns has exactly the 21 names of
\* feature_order, and get_feature_vector returns a vector of length 21
\* whose i-th entry is the value its map has for the i-th name
FeatureMapComplete ==
    /\ Len(feature_order) = 21
    /\ Cardinality(AllNames) = 21
    /\ features.status = "ok" => DOMAIN features.map = AllNames
    /\ feature_vector.status = "ok" =>
          /\ DOMAIN feature_vector.map = AllNames
          /\ Len(feature_vector.vector) = 21
          /\ \A i \in 1..21 :
                feature_vector.vector[i] = feature_vector.map[feature_order[i]]

\* a vector was returned for a window with flows, bytes and sizes in it
FeatureMapComplete_witness ==
    /\ feature_vector.status = "ok"
    /\ feature_vector.map["packet_count"] = Num(2)
    /\ feature_vector.map["num_flows"] = Num(2)
    /\ feature_vector.map["total_bytes"] # Num(0)
    /\ feature_vector.vector[13] = Num(1)
    /\ feature_vector.vector[18] # Num(0)

\* C9: for every non-empty window the four protocol counts add up to
\* packet_count: each ratio is a count over packet_count and the four
\* ratios add up to 1
RatiosSumToOne ==
    (features.status = "ok" /\ ~WindowEmpty) =>
       LET m == features.map
           n == m["packet_count"][1]
           ratios == <<m["tcp_ratio"], m["udp_ratio"], m["icmp_ratio"],
                       m["other_ratio"]>>
       IN  /\ n > 0
           /\ m["packet_count"][2] = 1
           /\ \A i \in 1..4 : ratios[i][1] >= 0 /\ n % ratios[i][2] = 0
           /\ FracAdd(FracAdd(ratios[1], ratios[2]),
                       FracAdd(ratios[3], ratios[4])) = Num(1)

\* a window of two records, one of them without a tcp, udp or icmp layer
RatiosSumToOne_witness ==
    /\ features.status = "ok"
    /\ features.map["packet_count"] = Num(2)
    /\ features.map["other_ratio"] = Frac(1, 2)
    /\ features.map["udp_ratio"] = Frac(1, 2)

\* the length a record contributes according to the specification: the
\* value of the ip length field when it is a number or a numeric string,
\* or a one-element sequence holding one, and 0 otherwise
claimed_length(layers) ==
    IF ~HasLayer(layers, "ip") THEN 0
    ELSE IF ~layers["ip"].isdict THEN 0
    ELSE IF ~HasField(layers["ip"], "ip_len") THEN 0
    ELSE LET v == layers["ip"].fields["ip_len"]
             scalar == IF v.type = "list" /\ Len(v.list) = 1 THEN v.list[1] ELSE v
         IN  IF scalar.type \in {"int", "str"} /\ ~IntRaises(scalar)
               THEN IntOf(scalar) ELSE 0

\* C10: total_bytes of a window is the sum of the ip length field over the
\* selected records, a one-element sequence contributing the length it
\* holds
TotalBytesSumsLengths ==
    (features.status = "ok" /\ ~WindowEmpty) =>
       features.map["total_bytes"] =
          Num(SumSeq([i \in DOMAIN packet_buffer |->
                        IF packet_buffer[i].timestamp >= now - window_size
                          THEN claimed_length(packet_buffer[i].layers)
                          ELSE 0]))

(***************************************************************************)
(* Properties of malformed and of uniform windows, and of the calls.       *)
(***************************************************************************)
\* C11: extract_features (and get_feature_vector, which calls it) never
\* ends in an error, whatever malformed records the retained history holds:
\* it always returns a feature map.
ExtractNeverRaises ==
    features.status # "raised" /\ feature_vector.status # "raised"

\* the window: n >= 1 records that all carry a tcp layer, the same source,
\* destination and ports, and the same scalar length
UniformWindow(wp) ==
    /\ wp # <<>>
    /\ \A i \in DOMAIN wp :
          /\ HasLayer(wp[i].layers, "tcp")
          /\ in_flow(wp[i].layers)
          /\ flow_key(wp[i].layers) = flow_key(wp[1].layers)
          /\ HasIpDict(wp[i].layers)
          /\ ip_len(wp[i].layers).type \in {"int", "str"}
          /\ ~IntRaises(ip_len(wp[i].layers))
          /\ IntOf(ip_len(wp[i].layers)) = IntOf(ip_len(wp[1].layers))

\* C12: for a window of n >= 1 tcp records of one (source, destination,
\* ports) and one scalar length L the feature map has tcp_ratio = 1,
\* num_flows = 1, unique_connections = 1, avg_packet_size = L,
\* packet_count = n and total_bytes = n * L.
UniformWindowFeatures ==
    LET wp == window_packets(packet_buffer, now, window_size)
    IN  features.status = "ok" /\ UniformWindow(wp) =>
          LET L == IntOf(ip_len(wp[1].layers))
          IN  /\ features.map["tcp_ratio"] = Num(1)
              /\ features.map["num_flows"] = Num(1)
              /\ features.map["unique_connections"] = Num(1)
              /\ features.map["avg_packet_size"] = Num(L)
              /\ features.map["packet_count"] = Num(Len(wp))
              /\ features.map["total_bytes"] = Num(Len(wp) * L)

\* extract_features has returned the map of a uniform window of two or
\* more records with a positive length
UniformWindowFeatures_witness ==
    LET wp == window_packets(packet_buffer, now, window_size)
    IN  /\ features.status = "ok"
        /\ UniformWindow(wp)
        /\ Len(wp) >= 2
        /\ IntOf(ip_len(wp[1].layers)) > 0

\* C13: extract_features changes no state: the retained history and
\* window_size are the same after the call as before, and a second call at
\* the same time on the same history returns the map the first returned.
ExtractIsPure ==
    [][extract_features_call =>
          /\ packet_buffer' = packet_buffer
          /\ window_size' = window_size
          /\ (features.status = "ok" => features' = features)]_vars

\* extract_features has returned the map of a window of one record while
\* the history also holds a record outside the window
ExtractIsPure_witness ==
    /\ features.status = "ok"
    /\ features.map["packet_count"] = Num(1)
    /\ Len(packet_buffer) = 2

(***************************************************************************)
(* Properties of the agent.                                                *)
(***************************************************************************)
\* C14: start() while the agent is running is a no-op: no further capture
\* or analysis thread is started, and is_running, the counters, the buffer
\* and the sinks stay as they are.
StartWhileRunningIsNoOp ==
    [][start /\ is_running =>
          UNCHANGED <<is_running, is_capturing, capture_threads, analysis,
                      detection_count, normal_count, capture_queue,
                      packet_buffer, detection_log, alert_log>>]_vars

\* start() has been called on a running agent with a live analysis thread
StartWhileRunningIsNoOp_witness ==
    /\ is_running
    /\ \E i \in DOMAIN agent_log : agent_log[i] = "already running"
    /\ \E t \in Threads : analysis[t].pc = "analyse"

\* C15: stop() called twice in a row adds no duplicate log entry: the second
\* call writes nothing, so the log never holds two stop entries in a row.
StopTwiceLogsOnce ==
    \A i \in DOMAIN agent_log :
       i < Len(agent_log) => ~(agent_log[i] = "stopped" /\ agent_log[i + 1] = "stopped")

\* C16: after stop() has returned, and until start() is called again, at
\* most one DetectionRecord is appended (by the cycle then in flight).
AtMostOneRecordAfterStop ==
    \A r \in 0..MaxCalls :
       Cardinality({i \in DOMAIN detection_log :
                       detection_log[i].run = r /\ detection_log[i].after_stop}) <= 1

\* C17: once stop() has been called, every analysis thread leaves its loop
\* unless start() is called again, wherever in its cycle it was.
StoppedThreadsExit ==
    ~is_running ~> (is_running \/ \A t \in Threads : analysis[t].pc = "none")

\* the agent is stopped while a thread is in the handler of a cycle failure
\* and another is about to analyse what it drained
StoppedThreadsExit_witness ==
    /\ ~is_running
    /\ \E t, u \in Threads : analysis[t].pc = "except" /\ analysis[u].pc = "analyse"

\* C18: a cycle creates an AlertRecord exactly when it scored an anomaly
\* with a score above 0.7, and the record's severity is HIGH exactly when
\* the score is above 0.8, else MEDIUM.
AlertExactlyAboveThreshold ==
    [][\A t \in Threads :
          cycle_analyse(t, PortOutcomes, WorkingSinks) =>
             /\ (Len(alert_log') = Len(alert_log) + 1)
                  <=> /\ analysis'[t].is_anomaly
                      /\ ~FracLE(analysis'[t].anomaly_score, <<7, 10>>)
             /\ Len(alert_log') > Len(alert_log) =>
                  alert_log'[Len(alert_log')].severity =
                     IF ~FracLE(analysis'[t].anomaly_score, <<4, 5>>)
                       THEN "HIGH" ELSE "MEDIUM"]_vars

\* C19: the pipeline can raise an alert: when a thread of the agent, its
\* model trained, is about to score a window it drained, some outcome of
\* predict and predict_proba makes the cycle emit an AlertRecord (ANOMALY
\* with a score above 0.7).
AlertCanBeRaised ==
    \A t \in Threads :
       LET buf == AppendAll(packet_buffer, Accepted(analysis[t].packets), maxlen)
       IN  /\ is_trained
           /\ analysis[t].pc = "analyse"
           /\ extract_features(buf, now, window_size).status = "ok"
           /\ ~json_dumps_raises(window_packets(buf, now, window_size))
           => \E o \in DetectorOutcomes :
                 o.prediction = -1 /\ ~FracLE(o.score, <<7, 10>>)

(***************************************************************************)
(* Properties of the detector.                                             *)
(***************************************************************************)
\* C20: every value predict_proba of a trained model returns for a
\* non-empty batch lies in [0, 1], also when all raw scores are equal.
ScoresInUnitInterval ==
    is_trained =>
       \A i \in DOMAIN scored.scores :
          FracLE(Num(0), scored.scores[i]) /\ FracLE(scored.scores[i], Num(1))

\* a trained model has scored a batch of several rows with equal raw scores
ScoresInUnitInterval_witness ==
    /\ is_trained
    /\ Len(scored.scores) >= 2
    /\ \A i \in DOMAIN scored.raw : scored.raw[i] = scored.raw[1]
    /\ scored.raw[1] > 0

\* C21: on a model that is not trained predict returns 1 (NORMAL) for every
\* row and predict_proba returns 0 for every row, one value per row of the
\* batch, and the call leaves is_trained false.
UntrainedPredictsNormal ==
    [][~is_trained /\ (predict_call \/ predict_proba_call) =>
          /\ is_trained' = FALSE
          /\ \A i \in DOMAIN scored'.predictions : scored'.predictions[i] = 1
          /\ \A i \in DOMAIN scored'.scores : scored'.scores[i] = Num(0)
          /\ Len(scored'.predictions) + Len(scored'.scores) = Len(scored'.raw)]_vars

\* predict on a model that is not trained has returned for a batch of
\* several rows with different raw scores
UntrainedPredictsNormal_witness ==
    /\ ~is_trained
    /\ Len(scored.predictions) >= 2
    /\ scored.raw[1] # scored.raw[2]

(***************************************************************************)
(* Properties of the agent's cycle and of its threads.                     *)
(***************************************************************************)
\* C22: a failure in a cycle is caught: the step that fails leaves
\* is_running as it is, the thread goes from the handler to the loop test
\* and, unless the agent is stopped, into its next cycle; a thread ends
\* only at a loop test that finds is_running false.
CycleFailureIsCaught ==
    /\ [][\A t \in Threads :
             /\ (analysis[t].pc # "except" /\ analysis'[t].pc = "except")
                   => is_running' = is_running
             /\ analysis[t].pc = "except"
                   => analysis'[t].pc \in {"except", "while"}
             /\ (analysis[t].pc # "none" /\ analysis'[t].pc = "none")
                   => ~is_running /\ analysis[t].pc = "while"]_vars
    /\ \A t \in Threads :
          (analysis[t].pc = "except")
             ~> (analysis[t].pc = "get_packets" \/ ~is_running)

\* a cycle of a running agent has failed and its thread is in the handler
CycleFailureIsCaught_witness ==
    /\ is_running
    /\ \E t \in Threads : analysis[t].pc = "except"
    /\ packet_buffer # <<>>

\* C23: across any sequence of start() and stop() calls at most one
\* analysis thread of the agent is live.
OneAnalysisThread ==
    Cardinality({t \in Threads : analysis[t].pc # "none"}) <= 1

\* C24: across any sequence of start_capture() and stop_capture() calls at
\* most one capture thread pushes into capture_queue.
SingleProducer == is_capturing => capture_threads <= 1

\* C25: once stop_capture() has returned, every tshark process that exists
\* or comes to exist is terminated in the end, unless start_capture() is
\* called again.
TransportTerminates ==
    ~is_capturing
       ~> (is_capturing \/ \A p \in DOMAIN processes : processes[p] = "terminated")

\* C26: the map get_statistics returns is consistent: total_analyzed is the
\* sum of its detection_count and normal_count, anomaly_rate is its
\* detection_count over max(total_analyzed, 1) and lies in [0, 1].
StatisticsConsistent ==
    statistics.pc = "returned" =>
       /\ statistics.total_analyzed
             = statistics.detection_count + statistics.normal_count
       /\ statistics.anomaly_rate
             = Frac(statistics.detection_count, Max(statistics.total_analyzed, 1))
       /\ FracLE(Num(0), statistics.anomaly_rate)
       /\ FracLE(statistics.anomaly_rate, Num(1))

\* C27: the vector a cycle scores is the ordered projection of the map the
\* cycle logs: entry i of feature_vector is the value of features for the
\* i-th name, also when the clock advances during the cycle.
ScoredVectorIsLoggedMap ==
    \A t \in Threads :
       analysis[t].pc = "detect" =>
          \A i \in DOMAIN feature_order :
             analysis[t].feature_vector.vector[i]
                = analysis[t].features.map[feature_order[i]]

\* the thread t is about to analyse a batch that add_packets accepts and
\* whose window extract_features returns a map for
ScoresWindow(t) ==
    LET buf == AppendAll(packet_buffer, Accepted(analysis[t].packets), maxlen)
    IN  /\ analysis[t].pc = "analyse"
        /\ Len(Accepted(analysis[t].packets)) = Len(analysis[t].packets)
        /\ extract_features(buf, now, window_size).status = "ok"

\* C28: a cycle that drained packets and did not fail appends exactly one
\* DetectionRecord; a cycle that drained nothing appends none, changes
\* neither counter and emits no alert.
OneRecordPerCycleWithData ==
    [][\A t \in Threads :
          /\ (cycle_analyse(t, DetectorOutcomes, WorkingSinks)
                 /\ analysis'[t].pc = "sleep")
                => Len(detection_log') = Len(detection_log) + 1
          /\ (cycle_get_packets(t) /\ analysis'[t].pc = "sleep")
                => UNCHANGED <<detection_log, alert_log, detection_count,
                               normal_count>>]_vars

\* C29: a cycle that scores a window adds one to exactly one of
\* detection_count and normal_count, to detection_count exactly when it
\* emits an alert.
CountersFollowAlerts ==
    [][\A t \in Threads :
          (ScoresWindow(t) /\ cycle_analyse(t, PortOutcomes, WorkingSinks)) =>
             /\ detection_count' + normal_count'
                   = detection_count + normal_count + 1
             /\ detection_count' >= detection_count
             /\ normal_count' >= normal_count
             /\ (detection_count' = detection_count + 1)
                   <=> (Len(alert_log') = Len(alert_log) + 1)]_vars

RECURSIVE Parsable(_)
Parsable(batch) ==
    IF batch = <<>> THEN <<>>
    ELSE (IF FromIsoRaises(batch[1].timestamp) THEN <<>>
          ELSE <<[timestamp |-> FromIso(batch[1].timestamp),
                  layers |-> batch[1].layers]>>)
           \o Parsable(Tail(batch))

\* C31: when a batch handed to add_packets contains a record whose
\* timestamp does not parse, every other record of the batch is appended to
\* the retained history: only the malformed record is skipped
OnlyMalformedRecordIsSkipped ==
    [][\A batch \in NumberedBatches(ingested, now) :
          add_packets(batch)
             => packet_buffer' = AppendAll(packet_buffer, Parsable(batch), maxlen)]_vars

\* the class the priority order tcp, udp, icmp gives a record: that of the
\* first of the three layer keys it carries, and other when it has none
claimed_class(layers) ==
    LET order == <<"tcp", "udp", "icmp">>
        present == {i \in 1..3 : order[i] \in DOMAIN layers}
    IN  IF present = {} THEN "other"
        ELSE order[CHOOSE i \in present : \A j \in present : i <= j]

\* C32: each record of the window is counted in exactly one protocol
\* class, that of the first layer key present in the order tcp, udp, icmp,
\* else other: each ratio is the number of records of that class over the
\* number of records, so a record with tcp and udp layers counts as tcp
\* only and one with udp and icmp layers as udp only
ClassifiedByPriority ==
    (features.status = "ok" /\ ~WindowEmpty) =>
       \E wp \in {window_packets(packet_buffer, now, window_size)} :
          \A name \in {"tcp", "udp", "icmp", "other"} :
             features.map[name \o "_ratio"]
                = Frac(Cardinality({i \in DOMAIN wp :
                                      claimed_class(wp[i].layers) = name}),
                       Len(wp))

\* a window of a record with tcp and udp layers and a record with udp and
\* icmp layers: one is counted as tcp, the other as udp, none as icmp
ClassifiedByPriority_witness ==
    /\ features.status = "ok"
    /\ Len(packet_buffer) = 2
    /\ {"tcp", "udp"} \subseteq DOMAIN packet_buffer[1].layers
    /\ {"udp", "icmp"} \subseteq DOMAIN packet_buffer[2].layers
    /\ features.map["packet_count"] = Num(2)
    /\ features.map["tcp_ratio"] = Frac(1, 2)
    /\ features.map["udp_ratio"] = Frac(1, 2)
    /\ features.map["icmp_ratio"] = Num(0)

\* the record has a source and a destination address: its ip layer is a
\* mapping in which both fields are a non-empty value
has_addresses(layers) ==
    /\ "ip" \in DOMAIN layers
    /\ layers["ip"].isdict
    /\ \A f \in {"ip_src", "ip_dst"} :
          /\ f \in DOMAIN layers["ip"].fields
          /\ Truthy(field_value(layers["ip"], f))

\* the (source, destination, source port, destination port) of a record
claimed_key(layers) ==
    << address(layers, "ip_src"), address(layers, "ip_dst"),
       port(layers, "src"), port(layers, "dst") >>

\* C33: num_flows is the number of distinct (source, destination, source
\* port, destination port) keys among the records of the window that have
\* a source and a destination address; a record without them belongs to no
\* flow; the packets-per-flow counts add up to the number of grouped
\* records (their mean is that number over num_flows, their maximum the
\* size of the largest group); and num_flows, avg and max duration, avg
\* and max packets per flow are all 0 when no record is grouped
FlowsGroupAddressedRecords ==
    features.status = "ok" =>
       \E wp \in {window_packets(packet_buffer, now, window_size)} :
          LET grouped == {i \in DOMAIN wp : has_addresses(wp[i].layers)}
              keys == {claimed_key(wp[i].layers) : i \in grouped}
              size(k) == Cardinality({i \in grouped :
                                        claimed_key(wp[i].layers) = k})
              m == features.map
          IN  IF grouped = {}
                THEN \A name \in {"num_flows", "avg_flow_duration",
                                  "max_flow_duration", "avg_packets_per_flow",
                                  "max_packets_per_flow"} : m[name] = Num(0)
                ELSE /\ m["num_flows"] = Num(Cardinality(keys))
                     /\ m["avg_packets_per_flow"]
                           = Frac(Cardinality(grouped), Cardinality(keys))
                     /\ \E k \in keys :
                           /\ m["max_packets_per_flow"] = Num(size(k))
                           /\ \A j \in keys : size(j) <= size(k)

\* a window of two records, one with addresses and one without: one flow
\* of one record, the other record in no flow
FlowsGroupAddressedRecords_witness ==
    /\ features.status = "ok"
    /\ features.map["packet_count"] = Num(2)
    /\ features.map["num_flows"] = Num(1)
    /\ features.map["max_packets_per_flow"] = Num(1)
    /\ \E i \in 1..2 : ~has_addresses(packet_buffer[i].layers)

\* C34: the duration of every flow of the window is its last-seen minus
\* its first-seen timestamp (the latest minus the earliest timestamp of its
\* records) and is never negative, in whatever order the records were
\* ingested: max_flow_duration is the largest such difference, and
\* avg_flow_duration and max_flow_duration are >= 0
FlowDurationsNonNegative ==
    features.status = "ok" =>
       \E wp \in {window_packets(packet_buffer, now, window_size)} :
          LET grouped == {i \in DOMAIN wp : has_addresses(wp[i].layers)}
              keys == {claimed_key(wp[i].layers) : i \in grouped}
              times(k) == {wp[i].timestamp :
                             i \in {j \in grouped : claimed_key(wp[j].layers) = k}}
              duration(k) ==
                  (CHOOSE t \in times(k) : \A u \in times(k) : u <= t)
                    - (CHOOSE t \in times(k) : \A u \in times(k) : t <= u)
              m == features.map
          IN  /\ FracLE(Num(0), m["avg_flow_duration"])
              /\ FracLE(Num(0), m["max_flow_duration"])
              /\ keys # {} =>
                    \E k \in keys :
                       /\ m["max_flow_duration"] = Num(duration(k))
                       /\ \A j \in keys : duration(j) <= duration(k)

\* the record carries a source or a destination address
has_an_address(layers) ==
    /\ "ip" \in DOMAIN layers
    /\ layers["ip"].isdict
    /\ \E f \in {"ip_src", "ip_dst"} :
          /\ f \in DOMAIN layers["ip"].fields
          /\ Truthy(field_value(layers["ip"], f))

\* C35: in every returned map unique_connections is at most
\* unique_sources * unique_destinations and at most num_flows, and
\* connection_diversity is unique_connections over
\* max(unique_sources * unique_destinations, 1), a value in [0, 1]; a
\* window none of whose records has an address gives 0 and the call does
\* not fail on a division by zero
ConnectionsBounded ==
    /\ features.status = "ok" =>
          LET m == features.map
              us == m["unique_sources"][1]
              ud == m["unique_destinations"][1]
              uc == m["unique_connections"][1]
          IN  /\ \A name \in {"unique_sources", "unique_destinations",
                              "unique_connections", "num_flows"} :
                    m[name][2] = 1 /\ m[name][1] >= 0
              /\ uc <= us * ud
              /\ uc <= m["num_flows"][1]
              /\ m["connection_diversity"]
                    = Frac(uc, IF us * ud >= 1 THEN us * ud ELSE 1)
              /\ FracLE(Num(0), m["connection_diversity"])
              /\ FracLE(m["connection_diversity"], Num(1))
    /\ (/\ features.status # "none"
        /\ \A p \in Range(window_packets(packet_buffer, now, window_size)) :
              ~has_an_address(p.layers))
          => /\ features.status = "ok"
             /\ features.map["connection_diversity"] = Num(0)

\* two connections between two sources and two destinations: a diversity
\* of one half
ConnectionsBounded_witness ==
    /\ features.status = "ok"
    /\ features.map["unique_sources"] = Num(2)
    /\ features.map["unique_destinations"] = Num(2)
    /\ features.map["unique_connections"] = Num(2)
    /\ features.map["connection_diversity"] = Frac(1, 2)

\* the length field of the record is a number or a numeric string: the
\* records whose length is added to total_bytes
length_parses(layers) ==
    /\ "ip" \in DOMAIN layers
    /\ layers["ip"].isdict
    /\ "ip_len" \in DOMAIN layers["ip"].fields
    /\ layers["ip"].fields["ip_len"].type \in {"int", "str"}
    /\ ~IntRaises(layers["ip"].fields["ip_len"])

\* C36: the size statistics are taken over exactly the records whose length
\* was added to total_bytes: the sizes add up to total_bytes (their mean is
\* total_bytes over the number of those records), min_packet_size <=
\* avg_packet_size <= max_packet_size, and the four size features are 0
\* when no length parsed
SizesMatchTotalBytes ==
    features.status = "ok" =>
       \E wp \in {window_packets(packet_buffer, now, window_size)} :
          LET n == Cardinality({i \in DOMAIN wp : length_parses(wp[i].layers)})
              m == features.map
          IN  IF n = 0
                THEN \A name \in {"avg_packet_size", "min_packet_size",
                                  "max_packet_size", "std_packet_size"} :
                        m[name] = Num(0)
                ELSE /\ m["avg_packet_size"] = Frac(m["total_bytes"][1], n)
                     /\ m["total_bytes"][2] = 1
                     /\ FracLE(m["min_packet_size"], m["avg_packet_size"])
                     /\ FracLE(m["avg_packet_size"], m["max_packet_size"])

\* a window of a record with the length 2 and a record whose length is a
\* one-element list: the statistics are those of the one length
SizesMatchTotalBytes_witness ==
    /\ features.status = "ok"
    /\ features.map["packet_count"] = Num(2)
    /\ features.map["total_bytes"] = Num(2)
    /\ features.map["avg_packet_size"] = Num(2)
    /\ features.map["min_packet_size"] = Num(2)
    /\ features.map["max_packet_size"] = Num(2)
    /\ \E i \in 1..2 :
          /\ HasIpDict(packet_buffer[i].layers)
          /\ ip_len(packet_buffer[i].layers).type = "list"

(***************************************************************************)
(* The score of a batch of one row.                                        *)
(***************************************************************************)
\* C37: for a batch of exactly one row predict_proba of a trained model
\* returns 0 for that row, whatever the raw score of the row is
OneRowScoresZero ==
    (is_trained /\ Len(scored.raw) = 1 /\ Len(scored.scores) = 1)
       => scored.scores[1] = Num(0)

\* a trained model has scored one row whose raw score is the largest one
OneRowScoresZero_witness ==
    /\ is_trained
    /\ Len(scored.scores) = 1
    /\ scored.raw = <<MaxRawScore>>

=============================================================================
